---- MODULE Spec2Model ----
(***************************************************************************)
(* A model of the GTFS-RT cleaning pipeline (src/realtime/gtfs_rt_clean.py *)
(* and the notebooks gtfs-rt.py / gtfs-rt-all.py it was extracted from)    *)
(* and of the tar -> parquet extraction (src/sim_bridge/tar2parquet.py).   *)
(*                                                                         *)
(* A data frame is a sequence of records (one record per row).  A null of  *)
(* a string column is the value NULL; a nullable integer column holds <<>> *)
(* for null and <<n>> for the integer n.  Polars leaves the row order of   *)
(* unique() and group_by() unspecified: the model keeps the input order    *)
(* and no property below reads the order of such a result.                 *)
(*                                                                         *)
(* Each stage of the pipeline has its own specification: the input frames  *)
(* are built row by row from small domains, then the stage runs.           *)
(***************************************************************************)
EXTENDS Integers, Sequences, FiniteSets, TLC

VARIABLES
    pc,                    \* position in the stage being run
    df_v, df_t,            \* vehicle positions / trip updates as loaded
    df_v_cleaned, df_t_cleaned,   \* after remove_duplicate_observations
    df_vt,                 \* left join of the two on (snapshot_ts, vehicle_id)
    df_imputed,            \* after impute_route_from_neighbors
    df_result,             \* rows with the location-based stop sequence
    df_with_trip_count,    \* after derive_trip_counts
    df_final_approach,     \* after select_nearest_approach
    df_merged,             \* realtime rows joined with the static stop table
    df_stops,              \* stop_name, stop_lat, stop_lon of the GTFS stops
    df_coords,             \* distinct (lat, lon) of df_merged
    df_nearest_stop,       \* after compute_nearest_stop
    df_merged_neareststop, \* df_merged joined with df_nearest_stop
    call,                  \* tar2parquet: function called, workers, agency filter
    members,               \* tar2parquet: the members of the tar archive
    json_tasks,            \* tar2parquet: (filename, content, feed_type) read in phase 1
    cursor,                \* tar2parquet: position of the running for-loop
    futures,               \* tar2parquet: state of every submitted future
    acc,                   \* tar2parquet: counters, agencies, collected frames
    total_size_bytes,      \* tar2parquet: bytes of content read in phase 1
    parse_log,             \* tar2parquet: the tasks parsed in the calling process
    workers,               \* tar2parquet: the number of workers after auto-detection
    output_dir,            \* tar2parquet: whether the output directory was created
    saved,                 \* tar2parquet: the calls of save_to_parquet_partitioned
    canon_args,            \* _canonicalize_name_for_parser: feed_type and content
    canon_name,            \* _canonicalize_name_for_parser: the value returned
    stop_times,            \* gtfs_static: the rows of stop_times.txt (st)
    df_lazy,               \* gtfs_static: the sorted rows with headway_s
    args,                  \* tar2parquet main: the parsed command line
    returned,              \* tar2parquet main: the return code
    processed,             \* tar2parquet main: the processing calls made
    tar_files,             \* process_tar_directory: the files matching the pattern
    tar_index,             \* process_tar_directory: position of the loop
    tar_results,           \* process_tar_directory: outcome of every attempt
    df_final,              \* extract_timetable: the frame given (df)
    direction_val,         \* extract_timetable: the direction asked for
    df_timetable           \* extract_timetable: the frame returned

joinVars == <<df_v, df_t, df_v_cleaned, df_t_cleaned, df_vt, df_imputed>>
tripVars == <<df_result, df_with_trip_count, df_final_approach>>

nearVars == <<df_merged, df_stops, df_coords, df_nearest_stop,
              df_merged_neareststop>>

tarVars == <<call, members, json_tasks, cursor, futures, acc>>

saveVars == <<output_dir, saved>>

workersVars == <<total_size_bytes, workers, parse_log>>

canonVars == <<canon_args, canon_name>>

headwayVars == <<stop_times, df_lazy>>

mainVars == <<args, returned, processed>>

dirVars == <<tar_files, tar_index, tar_results>>

ttVars == <<df_final, direction_val, df_timetable>>

otherVars == <<saveVars, workersVars, canonVars, headwayVars, mainVars, dirVars, ttVars>>

vars == <<pc, joinVars, tripVars, nearVars, tarVars, otherVars>>

JoinIdle ==
    /\ df_v = <<>> /\ df_t = <<>>
    /\ df_v_cleaned = <<>> /\ df_t_cleaned = <<>>
    /\ df_vt = <<>> /\ df_imputed = <<>>

TripIdle ==
    /\ df_result = <<>> /\ df_with_trip_count = <<>> /\ df_final_approach = <<>>

NearIdle ==
    /\ df_merged = <<>> /\ df_stops = <<>> /\ df_coords = <<>>
    /\ df_nearest_stop = <<>> /\ df_merged_neareststop = <<>>

TarIdle ==
    /\ call = <<>> /\ members = <<>> /\ json_tasks = <<>>
    /\ cursor = 0 /\ futures = <<>> /\ acc = <<>>

SaveIdle == output_dir = FALSE /\ saved = <<>>

WorkersIdle == total_size_bytes = 0 /\ workers = <<>> /\ parse_log = <<>>

CanonIdle == canon_args = <<>> /\ canon_name = <<>>

HeadwayIdle == stop_times = <<>> /\ df_lazy = <<>>

MainIdle == args = <<>> /\ returned = <<>> /\ processed = <<>>

DirIdle == tar_files = <<>> /\ tar_index = 0 /\ tar_results = <<>>

TimetableIdle == df_final = <<>> /\ direction_val = 1 /\ df_timetable = <<>>

----------------------------------------------------------------------------
(* Bounds and domains *)

MaxRows == 2      \* rows of each input frame of the join stage
MaxVtRows == 4    \* rows of the joined frame given to the imputation stage
MaxTripRows == 3  \* rows of the frame given to the trip segmentation stage
MaxMerged == 3    \* rows of the merged frame given to the nearest-stop stage
MaxStops == 2     \* rows of the stop table
MaxMembers == 3   \* members of the tar archive
MaxEntities == 2  \* entities of the feed given to _canonicalize_name_for_parser
MaxStopTimes == 3 \* rows of stop_times.txt
MaxTarFiles == 3  \* files matching the pattern in the tar directory
MaxFinalRows == 3 \* rows of the frame given to extract_timetable

NULL == "NULL"

Vehicles == {4980, 4983}             \* chitetsu_tram_4980, chitetsu_tram_4983
Routes == {"3001-2-1", "3003-5-2"}

\* (snapshot_ts, vehicle_id) pairs of the join stage: two vehicles at the same
\* time, one vehicle at two times
JoinKeys == {<<1, 4980>>, <<2, 4980>>, <<1, 4983>>}
Lats == {35, 36}
Times == {1, 2, 3, 4}
RoutesOrNull == Routes \cup {NULL}

\* the trip stage: a vehicle may have several rows at one snapshot_ts (the joins
\* with the static stop table can repeat a ping); the stop sequence is null
\* where the left join on (route_id, nearest_stop) found no stop
TripKeys == {<<1, 4980>>, <<2, 4980>>, <<1, 4983>>}
StopSequences == {<<>>, <<1>>, <<2>>, <<7>>}
Distances == {10, 20}

\* the nearest-stop stage: coordinates in whole degrees, never null
Lons == {136, 137, 138}
StopTable ==
    { [stop_name |-> "toyama_station", stop_lat |-> 35, stop_lon |-> 136],
      [stop_name |-> "shintomicho", stop_lat |-> 35, stop_lon |-> 138],
      [stop_name |-> "kenchomae", stop_lat |-> 36, stop_lon |-> 137] }

\* tar2parquet: the agencies of the parsed feeds, and the kinds of tar member:
\* what the member's name contains, whether extractfile().read() raises, and
\* what the parser makes of the content (it raises, returns an empty frame, or
\* returns the rows of one agency, with the date_str of every row, or a frame
\* without an agency column), and the number of bytes of the content
Agencies == {"chitetsu_tram", "chitetsu_bus", "unknown"}
FeedTypes == {"trip_updates", "vehicle_positions"}
MemberKinds ==
    { [name |-> "trip_update", readable |-> TRUE, content |-> "chitetsu_tram",
       dates |-> <<20251102, 20251101>>, size |-> 52428800],
      [name |-> "trip_update", readable |-> TRUE, content |-> "chitetsu_bus",
       dates |-> <<20251101>>, size |-> 2048],
      [name |-> "vehicle_position", readable |-> TRUE, content |-> "chitetsu_bus",
       dates |-> <<20251101>>, size |-> 2048],
      [name |-> "vehicle_position", readable |-> TRUE,
       content |-> "no_agency_column", dates |-> <<20251101>>, size |-> 2048],
      [name |-> "trip_update", readable |-> TRUE, content |-> "invalid",
       dates |-> <<>>, size |-> 16],
      [name |-> "vehicle_position", readable |-> TRUE, content |-> "no_entity",
       dates |-> <<>>, size |-> 64],
      [name |-> "trip_update", readable |-> FALSE, content |-> "chitetsu_tram",
       dates |-> <<20251101>>, size |-> 2048],
      [name |-> "other", readable |-> TRUE, content |-> "chitetsu_tram",
       dates |-> <<20251101>>, size |-> 2048] }

\* the agency_filter argument split at the commas; <<>> stands for None
AgencyFilters == { <<>>, <<" chitetsu_tram", "unknown ">> }

\* str.strip() on the parts of the filters
strip(a) ==
    CASE a = " chitetsu_tram" -> "chitetsu_tram"
      [] a = "unknown " -> "unknown"
      [] OTHER -> a

\* the calls: the function, HAS_DUCKDB, the workers argument (<<>> is None),
\* os.cpu_count() (<<>> is None), the agency filter and show_agencies
Calls ==
    [function : {"process_tar_with_duckdb"}, has_duckdb : {TRUE},
     workers : {<<>>}, cpu_count : {<<>>},
     agency_filter : AgencyFilters, show_agencies : BOOLEAN]
        \cup [function : {"process_tar_with_duckdb"}, has_duckdb : {FALSE},
              workers : {<<>>}, cpu_count : {<<>>, <<1>>},
              agency_filter : AgencyFilters, show_agencies : BOOLEAN]
        \cup [function : {"process_tar_to_normalized_parquet"}, has_duckdb : {TRUE},
              workers : {<<1>>, <<2>>}, cpu_count : {<<>>},
              agency_filter : AgencyFilters, show_agencies : BOOLEAN]

\* if not HAS_DUCKDB: return process_tar_to_normalized_parquet(tar_path,
\* output_dir, agency_filter, show_agencies, None): the function whose body
\* runs, and its workers argument
running_function(c) ==
    IF c.function = "process_tar_with_duckdb" /\ ~c.has_duckdb
    THEN "process_tar_to_normalized_parquet"
    ELSE c.function

workers_argument(c) ==
    IF c.function = "process_tar_with_duckdb" /\ ~c.has_duckdb THEN <<>>
    ELSE c.workers

\* a slip: the parts of the filter are taken as they are
parse_agency_filter_unstripped(agency_filter) ==
    {agency_filter[i] : i \in 1..Len(agency_filter)}

\* allowed_agencies = set(a.strip() for a in agency_filter.split(',')); the
\* empty set stands for None
parse_agency_filter(agency_filter) ==
    {strip(agency_filter[i]) : i \in 1..Len(agency_filter)}

\* sorted() of agency names
AgencyRank(a) ==
    IF a = "chitetsu_bus" THEN 1 ELSE IF a = "chitetsu_tram" THEN 2 ELSE 3

----------------------------------------------------------------------------
(* Frame helpers *)

Rows(df) == {df[i] : i \in 1..Len(df)}

KeyOf(r) == <<r.snapshot_ts, r.vehicle_id>>

KeysOf(df) == {KeyOf(df[i]) : i \in 1..Len(df)}

CountKey(df, k) == Cardinality({i \in 1..Len(df) : KeyOf(df[i]) = k})

RECURSIVE Flatten(_)
Flatten(ss) == IF ss = <<>> THEN <<>> ELSE Head(ss) \o Flatten(Tail(ss))

----------------------------------------------------------------------------
(* df.sort(['vehicle_id', 'snapshot_ts']) *)

SortBefore(a, b) ==
    \/ a.vehicle_id < b.vehicle_id
    \/ a.vehicle_id = b.vehicle_id /\ a.snapshot_ts < b.snapshot_ts

RECURSIVE InsertSorted(_, _)
InsertSorted(s, r) ==
    IF s = <<>> THEN <<r>>
    ELSE IF SortBefore(r, Head(s)) THEN <<r>> \o s
    ELSE <<Head(s)>> \o InsertSorted(Tail(s), r)

RECURSIVE sort_vehicle_ts(_)
sort_vehicle_ts(df) ==
    IF df = <<>> THEN <<>>
    ELSE InsertSorted(sort_vehicle_ts(SubSeq(df, 1, Len(df) - 1)), df[Len(df)])

----------------------------------------------------------------------------
(* remove_duplicate_observations: df.unique(subset, keep='first') *)

\* a slip: subset = ['vehicle_id'] only
unique_vehicle_only(df) ==
    LET F[n \in 0..Len(df)] ==
            IF n = 0 THEN <<>>
            ELSE IF \E j \in 1..(n-1) : df[j].vehicle_id = df[n].vehicle_id
                 THEN F[n-1]
                 ELSE Append(F[n-1], df[n])
    IN F[Len(df)]

\* row n is kept iff no earlier row has the same (snapshot_ts, vehicle_id)
remove_duplicate_observations(df) ==
    LET F[n \in 0..Len(df)] ==
            IF n = 0 THEN <<>>
            ELSE IF \E j \in 1..(n-1) : KeyOf(df[j]) = KeyOf(df[n])
                 THEN F[n-1]
                 ELSE Append(F[n-1], df[n])
    IN F[Len(df)]

----------------------------------------------------------------------------
(* df_v.join(df_t, on=['snapshot_ts','vehicle_id'], how='left') *)

Matches(l, right) == SelectSeq(right, LAMBDA r : KeyOf(r) = KeyOf(l))

Joined(l, route) ==
    [snapshot_ts |-> l.snapshot_ts, vehicle_id |-> l.vehicle_id,
     lat |-> l.lat, route_id |-> route]

JoinOne(l, right) ==
    LET m == Matches(l, right)
    IN  IF m = <<>> THEN << Joined(l, NULL) >>
        ELSE [i \in 1..Len(m) |-> Joined(l, m[i].route_id)]

\* a slip: how='inner' drops the vehicle positions without a trip update
inner_join(left, right) ==
    Flatten([i \in 1..Len(left) |->
        LET m == Matches(left[i], right)
        IN [j \in 1..Len(m) |-> Joined(left[i], m[j].route_id)]])

left_join(left, right) ==
    Flatten([i \in 1..Len(left) |-> JoinOne(left[i], right)])

----------------------------------------------------------------------------
(* Stage: deduplicate both feeds, then join (gtfs_rt_clean.main steps 4-5) *)

VRow(k, la) == [snapshot_ts |-> k[1], vehicle_id |-> k[2], lat |-> la]
TRow(k, ro) == [snapshot_ts |-> k[1], vehicle_id |-> k[2], route_id |-> ro]

InitJoin ==
    /\ pc = "load"
    /\ JoinIdle
    /\ SaveIdle
    /\ WorkersIdle
    /\ CanonIdle
    /\ HeadwayIdle
    /\ MainIdle
    /\ DirIdle
    /\ TimetableIdle
    /\ TripIdle
    /\ NearIdle
    /\ TarIdle

\* load_vehicle_positions on a file of one more row: the frame read is sorted
\* by (vehicle_id, snapshot_ts); the hours and columns are those of the domain
LoadVehiclePosition ==
    /\ pc = "load"
    /\ Len(df_v) < MaxRows
    /\ \E k \in JoinKeys, la \in Lats :
          df_v' = sort_vehicle_ts(Append(df_v, VRow(k, la)))
    /\ UNCHANGED <<otherVars, pc, df_t, df_v_cleaned, df_t_cleaned, df_vt, df_imputed, tripVars, nearVars, tarVars>>

\* load_trip_updates on a file of one more row: sorted likewise; the routes
\* are those of route_filter
LoadTripUpdate ==
    /\ pc = "load"
    /\ Len(df_t) < MaxRows
    /\ \E k \in JoinKeys, ro \in Routes :
          df_t' = sort_vehicle_ts(Append(df_t, TRow(k, ro)))
    /\ UNCHANGED <<otherVars, pc, df_v, df_v_cleaned, df_t_cleaned, df_vt, df_imputed, tripVars, nearVars, tarVars>>

DedupVehiclePositions ==
    /\ pc = "load"
    /\ df_v_cleaned' = remove_duplicate_observations(df_v)
    /\ pc' = "dedup_t"
    /\ UNCHANGED <<otherVars, df_v, df_t, df_t_cleaned, df_vt, df_imputed, tripVars, nearVars, tarVars>>

DedupTripUpdates ==
    /\ pc = "dedup_t"
    /\ df_t_cleaned' = remove_duplicate_observations(df_t)
    /\ pc' = "join"
    /\ UNCHANGED <<otherVars, df_v, df_t, df_v_cleaned, df_vt, df_imputed, tripVars, nearVars, tarVars>>

JoinTripUpdates ==
    /\ pc = "join"
    /\ df_vt' = left_join(df_v_cleaned, df_t_cleaned)
    /\ pc' = "joined"
    /\ UNCHANGED <<otherVars, df_v, df_t, df_v_cleaned, df_t_cleaned, df_imputed, tripVars, nearVars, tarVars>>

NextJoin ==
    \/ LoadVehiclePosition
    \/ LoadTripUpdate
    \/ DedupVehiclePositions
    \/ DedupTripUpdates
    \/ JoinTripUpdates

SpecJoin == InitJoin /\ [][NextJoin]_vars

----------------------------------------------------------------------------
(* Properties of the join stage *)

Deduplicated(src, res) ==
    /\ \A k \in JoinKeys : CountKey(res, k) <= 1
    /\ \A k \in KeysOf(src) : CountKey(res, k) = 1
    /\ Rows(res) \subseteq Rows(src)
    /\ remove_duplicate_observations(res) = res

\* C5: after remove_duplicate_observations on (snapshot_ts, vehicle_id) no two
\* result rows share a key, every key of the input appears exactly once, every
\* result row is an input row, and a second application changes nothing.
C5_DedupUniqueComplete ==
    /\ pc # "load" => Deduplicated(df_v, df_v_cleaned)
    /\ pc \in {"join", "joined"} => Deduplicated(df_t, df_t_cleaned)

\* two different observations of one (snapshot_ts, vehicle_id) were loaded and
\* the later one was removed
C5_Witness ==
    /\ pc = "dedup_t"
    /\ \E i, j \in 1..Len(df_v) :
          i < j /\ KeyOf(df_v[i]) = KeyOf(df_v[j]) /\ df_v[i] # df_v[j]
    /\ Len(df_v_cleaned) < Len(df_v)

\* C6: deduplicate both feeds, then left-join: the joined table has exactly one
\* row per deduplicated vehicle position; a position with no trip update at its
\* (snapshot_ts, vehicle_id) is kept with route_id null; no position is
\* duplicated, so (snapshot_ts, vehicle_id) stays unique.
C6_LeftJoinKeepsPositions ==
    pc = "joined" =>
        /\ Len(df_vt) = Len(df_v_cleaned)
        /\ \A k \in JoinKeys :
              /\ CountKey(df_vt, k) = CountKey(df_v_cleaned, k)
              /\ CountKey(df_vt, k) <= 1
        /\ \A l \in Rows(df_v_cleaned) : \E r \in Rows(df_vt) :
              /\ KeyOf(r) = KeyOf(l) /\ r.lat = l.lat
              /\ (KeyOf(l) \notin KeysOf(df_t)) => r.route_id = NULL
              /\ (KeyOf(l) \in KeysOf(df_t)) =>
                    \E t \in Rows(df_t_cleaned) :
                        KeyOf(t) = KeyOf(l) /\ r.route_id = t.route_id

\* a position without a trip update was joined (null route), next to a
\* position whose key had two trip updates before deduplication
C6_Witness ==
    /\ pc = "joined"
    /\ \E r \in Rows(df_vt) : r.route_id = NULL
    /\ \E r \in Rows(df_vt) : r.route_id # NULL /\ CountKey(df_t, KeyOf(r)) > 1

----------------------------------------------------------------------------
(* Polars' three-valued logic: a comparison with a null operand is null,   *)
(* and when(c).then(a).otherwise(b) takes a only where c is true.          *)

And3(a, b) ==
    IF a = "F" \/ b = "F" THEN "F"
    ELSE IF a = "N" \/ b = "N" THEN "N" ELSE "T"

Or3(a, b) ==
    IF a = "T" \/ b = "T" THEN "T"
    ELSE IF a = "N" \/ b = "N" THEN "N" ELSE "F"

Bool3(b) == IF b THEN "T" ELSE "F"

EqRoute3(a, b) == IF a = NULL \/ b = NULL THEN "N" ELSE Bool3(a = b)

WhenThenOtherwise(c, a, b) == IF c = "T" THEN a ELSE b

----------------------------------------------------------------------------
(* impute_route_from_neighbors *)

\* a slip: forward_fill() without .over('vehicle_id')
route_ff_no_over(s, i) ==
    LET known == {j \in 1..i : s[j].route_id # NULL}
    IN  IF known = {} THEN NULL
        ELSE s[CHOOSE j \in known : \A k \in known : k <= j].route_id

\* pl.col('route_id').forward_fill().over('vehicle_id') at row i of frame s
route_ff(s, i) ==
    LET known == {j \in 1..i : /\ s[j].vehicle_id = s[i].vehicle_id
                               /\ s[j].route_id # NULL}
    IN  IF known = {} THEN NULL
        ELSE s[CHOOSE j \in known : \A k \in known : k <= j].route_id

\* pl.col('route_id').backward_fill().over('vehicle_id') at row i of frame s
route_bf(s, i) ==
    LET known == {j \in i..Len(s) : /\ s[j].vehicle_id = s[i].vehicle_id
                                    /\ s[j].route_id # NULL}
    IN  IF known = {} THEN NULL
        ELSE s[CHOOSE j \in known : \A k \in known : j <= k].route_id

impute_route_from_neighbors(df) ==
    LET df_sorted == sort_vehicle_ts(df)
        route(i) ==
            WhenThenOtherwise(
                And3(Bool3(df_sorted[i].route_id = NULL),
                     EqRoute3(route_ff(df_sorted, i), route_bf(df_sorted, i))),
                route_ff(df_sorted, i),
                df_sorted[i].route_id)
    IN  [i \in 1..Len(df_sorted) |-> [df_sorted[i] EXCEPT !.route_id = route(i)]]

----------------------------------------------------------------------------
(* Stage: imputation of the joined frame.  The joined frame has one row    *)
(* per (snapshot_ts, vehicle_id) and arrives in any row order.             *)

VtRow(ts, v, ro) ==
    [snapshot_ts |-> ts, vehicle_id |-> v, lat |-> 35, route_id |-> ro]

InitImpute ==
    /\ pc = "joined"
    /\ JoinIdle
    /\ SaveIdle
    /\ WorkersIdle
    /\ CanonIdle
    /\ HeadwayIdle
    /\ MainIdle
    /\ DirIdle
    /\ TimetableIdle
    /\ TripIdle
    /\ NearIdle
    /\ TarIdle

JoinedRow ==
    /\ pc = "joined"
    /\ Len(df_vt) < MaxVtRows
    /\ \E ts \in Times, v \in Vehicles, ro \in RoutesOrNull :
          /\ <<ts, v>> \notin KeysOf(df_vt)
          /\ df_vt' = Append(df_vt, VtRow(ts, v, ro))
    /\ UNCHANGED <<otherVars, pc, df_v, df_t, df_v_cleaned, df_t_cleaned, df_imputed, tripVars, nearVars, tarVars>>

ImputeRoutes ==
    /\ pc = "joined"
    /\ df_imputed' = impute_route_from_neighbors(df_vt)
    /\ pc' = "imputed"
    /\ UNCHANGED <<otherVars, df_v, df_t, df_v_cleaned, df_t_cleaned, df_vt, tripVars, nearVars, tarVars>>

NextImpute == JoinedRow \/ ImputeRoutes

SpecImpute == InitImpute /\ [][NextImpute]_vars

----------------------------------------------------------------------------
(* Properties of the imputation stage *)

KnownEarlier(df, r) ==
    {x \in Rows(df) : /\ x.vehicle_id = r.vehicle_id
                      /\ x.snapshot_ts < r.snapshot_ts
                      /\ x.route_id # NULL}

KnownLater(df, r) ==
    {x \in Rows(df) : /\ x.vehicle_id = r.vehicle_id
                      /\ x.snapshot_ts > r.snapshot_ts
                      /\ x.route_id # NULL}

NearestEarlier(df, r) ==
    CHOOSE x \in KnownEarlier(df, r) :
        \A y \in KnownEarlier(df, r) : y.snapshot_ts <= x.snapshot_ts

NearestLater(df, r) ==
    CHOOSE x \in KnownLater(df, r) :
        \A y \in KnownLater(df, r) : x.snapshot_ts <= y.snapshot_ts

NeighboursAgree(df, r) ==
    /\ KnownEarlier(df, r) # {}
    /\ KnownLater(df, r) # {}
    /\ NearestEarlier(df, r).route_id = NearestLater(df, r).route_id

ImputedRow(r) == CHOOSE x \in Rows(df_imputed) : KeyOf(x) = KeyOf(r)

\* C1: a row whose route_id is null gets the value v exactly when the nearest
\* earlier and the nearest later row of the same vehicle (in snapshot_ts order)
\* with a known route_id both exist and both carry v; otherwise it stays null.
\* A value of another vehicle is never used.
C1_ImputeOnlyWhenNeighboursAgree ==
    pc = "imputed" =>
        \A r \in Rows(df_vt) : r.route_id = NULL =>
            /\ \E x \in Rows(df_imputed) : KeyOf(x) = KeyOf(r)
            /\ ImputedRow(r).route_id =
                  IF NeighboursAgree(df_vt, r)
                  THEN NearestEarlier(df_vt, r).route_id
                  ELSE NULL

\* a null between two agreeing neighbours was filled, while the trailing null of
\* another vehicle stayed null
C1_Witness ==
    /\ pc = "imputed"
    /\ \E r \in Rows(df_vt) :
          r.route_id = NULL /\ NeighboursAgree(df_vt, r)
          /\ ImputedRow(r).route_id # NULL
    /\ \E r \in Rows(df_vt) :
          r.route_id = NULL /\ KnownLater(df_vt, r) = {}
          /\ ImputedRow(r).route_id = NULL

----------------------------------------------------------------------------
(* derive_trip_counts *)

SEQ_JUMP == 5

Lt3(a, b) == IF a = <<>> \/ b = <<>> THEN "N" ELSE Bool3(a[1] < b[1])

Abs(n) == IF n < 0 THEN 0 - n ELSE n

AbsDiffGt3(a, b, n) ==
    IF a = <<>> \/ b = <<>> THEN "N" ELSE Bool3(Abs(a[1] - b[1]) > n)

FillNull(c, v) == IF c = "N" THEN v ELSE c

\* pl.col(seq_col).shift(1) inside .over('vehicle_id'): the stop sequence of
\* the previous row of the same vehicle, null on the vehicle's first row
shift1(s, i) ==
    LET before == {j \in 1..(i-1) : s[j].vehicle_id = s[i].vehicle_id}
    IN  IF before = {} THEN <<>>
        ELSE s[CHOOSE j \in before : \A k \in before : k <= j]
                 .current_stop_sequence_loc

\* a slip: only the jump condition, the rollback condition forgotten
cond_jump_only(s, i) ==
    AbsDiffGt3(s[i].current_stop_sequence_loc, shift1(s, i), SEQ_JUMP)

cond(s, i) ==
    Or3(Lt3(s[i].current_stop_sequence_loc, shift1(s, i)),
        AbsDiffGt3(s[i].current_stop_sequence_loc, shift1(s, i), SEQ_JUMP))

\* cond.fill_null(True).cast(Int32).cum_sum().over('vehicle_id')
trip_count(s, i) ==
    Cardinality({j \in 1..i : /\ s[j].vehicle_id = s[i].vehicle_id
                              /\ FillNull(cond(s, j), "T") = "T"})

derive_trip_counts(df) ==
    LET s == sort_vehicle_ts(df)
    IN  [i \in 1..Len(s) |->
            [vehicle_id |-> s[i].vehicle_id,
             snapshot_ts |-> s[i].snapshot_ts,
             current_stop_sequence_loc |-> s[i].current_stop_sequence_loc,
             distance_m |-> s[i].distance_m,
             trip_count |-> trip_count(s, i)]]

----------------------------------------------------------------------------
(* select_nearest_approach:                                                *)
(* df.sort('distance_m').group_by([vehicle, trip, sequence]).first()       *)

GroupOf(r) == <<r.vehicle_id, r.trip_count, r.current_stop_sequence_loc>>

\* the distinct groups in the order of their first row
GroupKeys(df) ==
    LET F[n \in 0..Len(df)] ==
            IF n = 0 THEN <<>>
            ELSE IF \E j \in 1..(n-1) : GroupOf(df[j]) = GroupOf(df[n])
                 THEN F[n-1]
                 ELSE Append(F[n-1], GroupOf(df[n]))
    IN F[Len(df)]

GroupRows(df, g) == {r \in Rows(df) : GroupOf(r) = g}

\* a slip: no sort before first(): the earliest row of the group is taken
FirstOfGroup(df, g) ==
    {df[CHOOSE i \in 1..Len(df) :
            /\ GroupOf(df[i]) = g
            /\ \A j \in 1..(i-1) : GroupOf(df[j]) # g]}

\* the rows that can come first within group g after sort('distance_m'): the
\* sort leaves the order of rows of equal distance open
NearestOfGroup(df, g) ==
    {r \in GroupRows(df, g) :
        \A x \in GroupRows(df, g) : r.distance_m <= x.distance_m}

\* the frames first() can return for the groups gs: one nearest row per group
RECURSIVE FirstPerGroup(_, _)
FirstPerGroup(df, gs) ==
    IF gs = <<>> THEN {<<>>}
    ELSE {<<r>> \o rest : r \in NearestOfGroup(df, Head(gs)),
                           rest \in FirstPerGroup(df, Tail(gs))}

\* every frame select_nearest_approach can return for df, the groups listed
\* in the order of their first row; group_by leaves their order open
select_nearest_approach(df) == FirstPerGroup(df, GroupKeys(df))

\* df.sort(['vehicle_id', 'snapshot_ts']) of a frame whose rows come in no
\* fixed order: every sorted frame of the same rows
RECURSIVE sort_unordered(_)
sort_unordered(df) ==
    IF df = <<>> THEN {<<>>}
    ELSE LET firsts == {i \in 1..Len(df) :
                           \A j \in 1..Len(df) : ~SortBefore(df[j], df[i])}
         IN  UNION {{<<df[i]>> \o rest :
                        rest \in sort_unordered(
                            [j \in 1..(Len(df) - 1) |->
                                IF j < i THEN df[j] ELSE df[j + 1]])} :
                    i \in firsts}

----------------------------------------------------------------------------
(* Stage: trip segmentation and nearest approach (main step 12) *)

ResultRow(v, ts, sq, d) ==
    [vehicle_id |-> v, snapshot_ts |-> ts,
     current_stop_sequence_loc |-> sq, distance_m |-> d]

InitTrip ==
    /\ pc = "merged"
    /\ JoinIdle
    /\ SaveIdle
    /\ WorkersIdle
    /\ CanonIdle
    /\ HeadwayIdle
    /\ MainIdle
    /\ DirIdle
    /\ TimetableIdle
    /\ TripIdle
    /\ NearIdle
    /\ TarIdle

MergedRow ==
    /\ pc = "merged"
    /\ Len(df_result) < MaxTripRows
    /\ \E k \in TripKeys, sq \in StopSequences, d \in Distances :
          df_result' = Append(df_result, ResultRow(k[2], k[1], sq, d))
    /\ UNCHANGED <<otherVars, pc, joinVars, nearVars, tarVars, df_with_trip_count, df_final_approach>>

DeriveTripCounts ==
    /\ pc = "merged"
    /\ df_with_trip_count' = derive_trip_counts(df_result)
    /\ pc' = "trips"
    /\ UNCHANGED <<otherVars, joinVars, nearVars, tarVars, df_result, df_final_approach>>

\* select_nearest_approach(df_with_trip).sort(['vehicle_id', 'snapshot_ts'])
SelectNearestApproach ==
    /\ pc = "trips"
    /\ df_final_approach' \in
          UNION {sort_unordered(df) :
                    df \in select_nearest_approach(df_with_trip_count)}
    /\ pc' = "approach"
    /\ UNCHANGED <<otherVars, joinVars, nearVars, tarVars, df_result, df_with_trip_count>>

NextTrip == MergedRow \/ DeriveTripCounts \/ SelectNearestApproach

SpecTrip == InitTrip /\ [][NextTrip]_vars

----------------------------------------------------------------------------
(* Properties of the trip stage *)

SameVehicleBefore(s, i) == {j \in 1..(i-1) : s[j].vehicle_id = s[i].vehicle_id}

PrevRow(s, i) ==
    s[CHOOSE j \in SameVehicleBefore(s, i) :
          \A k \in SameVehicleBefore(s, i) : k <= j]

\* the condition as the claim states it: a rollback or a jump of more than 5
\* between two known stop sequences
ClaimedNewTrip(prev, cur) ==
    /\ prev.current_stop_sequence_loc # <<>>
    /\ cur.current_stop_sequence_loc # <<>>
    /\ \/ cur.current_stop_sequence_loc[1] < prev.current_stop_sequence_loc[1]
       \/ Abs(cur.current_stop_sequence_loc[1]
              - prev.current_stop_sequence_loc[1]) > 5

TimeOrderedPerVehicle(s) ==
    \A i, j \in 1..Len(s) :
        (i < j /\ s[i].vehicle_id = s[j].vehicle_id)
            => s[i].snapshot_ts <= s[j].snapshot_ts

\* C2 (as claimed): per vehicle in snapshot_ts order the first row has
\* trip_count 1, a later row has the previous trip_count plus 1 when its stop
\* sequence is smaller than the previous one or differs from it by more than 5,
\* and the previous trip_count otherwise; nothing else starts a new trip.
C2_TripStartsOnlyOnRollbackOrJump ==
    pc \in {"trips", "approach"} =>
        LET s == df_with_trip_count
        IN  /\ TimeOrderedPerVehicle(s)
            /\ \A i \in 1..Len(s) :
                  IF SameVehicleBefore(s, i) = {}
                  THEN s[i].trip_count = 1
                  ELSE s[i].trip_count =
                          PrevRow(s, i).trip_count
                          + (IF ClaimedNewTrip(PrevRow(s, i), s[i]) THEN 1 ELSE 0)

\* C3: within every (vehicle_id, trip_count) group the stop sequence is known
\* and non-decreasing in snapshot_ts order, and two consecutive rows of one
\* trip never differ by more than 5.
C3_SequenceMonotoneWithinTrip ==
    pc \in {"trips", "approach"} =>
        LET s == df_with_trip_count
        IN  /\ TimeOrderedPerVehicle(s)
            /\ \A i, j \in 1..Len(s) :
                  (/\ i < j
                   /\ s[i].vehicle_id = s[j].vehicle_id
                   /\ s[i].trip_count = s[j].trip_count)
                  => /\ s[i].current_stop_sequence_loc # <<>>
                     /\ s[j].current_stop_sequence_loc # <<>>
                     /\ s[i].current_stop_sequence_loc[1]
                            <= s[j].current_stop_sequence_loc[1]
            /\ \A i \in 1..Len(s) :
                  (/\ SameVehicleBefore(s, i) # {}
                   /\ PrevRow(s, i).trip_count = s[i].trip_count)
                  => Abs(s[i].current_stop_sequence_loc[1]
                         - PrevRow(s, i).current_stop_sequence_loc[1]) <= 5

\* one vehicle has a trip of two rows with increasing stop sequence, and a
\* rollback has started a second trip
C3_Witness ==
    /\ pc = "trips"
    /\ \E i, j, k \in 1..Len(df_with_trip_count) :
          LET s == df_with_trip_count
          IN  /\ i < j /\ j < k
              /\ s[i].vehicle_id = s[j].vehicle_id
              /\ s[j].vehicle_id = s[k].vehicle_id
              /\ s[i].trip_count = 1 /\ s[j].trip_count = 1
              /\ s[i].current_stop_sequence_loc = <<1>>
              /\ s[j].current_stop_sequence_loc = <<2>>
              /\ s[k].trip_count = 2

\* C7: select_nearest_approach keeps exactly one row for every distinct
\* (vehicle_id, trip_count, current_stop_sequence_loc) of its input, an input
\* row with the smallest distance_m of its group; no group is lost.
C7_OneNearestRowPerGroup ==
    pc = "approach" =>
        LET in == df_with_trip_count
            out == df_final_approach
            groups == {GroupOf(r) : r \in Rows(in)}
        IN  /\ Len(out) = Cardinality(groups)
            /\ \A g \in groups :
                  /\ Cardinality({n \in 1..Len(out) : GroupOf(out[n]) = g}) = 1
                  /\ \A n \in 1..Len(out) : GroupOf(out[n]) = g =>
                        /\ out[n] \in Rows(in)
                        /\ \A x \in Rows(in) : GroupOf(x) = g =>
                              out[n].distance_m <= x.distance_m

\* a group of two rows whose later row is the nearer one was reduced to that
\* row, and another group was kept as well
C7_Witness ==
    /\ pc = "approach"
    /\ Len(df_final_approach) = 2
    /\ \E i, j \in 1..Len(df_with_trip_count) :
          LET s == df_with_trip_count
          IN  /\ i < j
              /\ GroupOf(s[i]) = GroupOf(s[j])
              /\ s[j].distance_m < s[i].distance_m
              /\ s[j] \in Rows(df_final_approach)

----------------------------------------------------------------------------
(* compute_nearest_stop.  Distances are computed in integers: lengths in   *)
(* units of 100 m, and distance_m holds the square of the distance (the    *)
(* square root is monotone, so the order of two distances and their ties   *)
(* are those of the code's distance_m).                                    *)

EQ_LON_DIST == 111320
LAT_DIST == 111111

\* np.cos(np.deg2rad(lat_avg)) * 10^4 for lat_avg = lat_sum / 2
Cos1e4(lat_sum) ==
    CASE lat_sum = 70 -> 8192
      [] lat_sum = 71 -> 8141
      [] lat_sum = 72 -> 8090

lon_factor(lat, stop_lat) == (Cos1e4(lat + stop_lat) * EQ_LON_DIST) \div 10000

distance_m(lat, lon, stop_lat, stop_lon) ==
    LET dy == (Abs(lat - stop_lat) * LAT_DIST) \div 100
        dx == (Abs(lon - stop_lon) * lon_factor(lat, stop_lat)) \div 100
    IN  dy * dy + dx * dx

CoordOf(r) == <<r.lat, r.lon>>

\* a slip: unique(subset=['lat'])
unique_lat_only(df) ==
    LET F[n \in 0..Len(df)] ==
            IF n = 0 THEN <<>>
            ELSE IF \E j \in 1..(n-1) : df[j].lat = df[n].lat
                 THEN F[n-1]
                 ELSE Append(F[n-1], [lat |-> df[n].lat, lon |-> df[n].lon])
    IN F[Len(df)]

\* df.select(['lat', 'lon']).unique()
unique_coords(df) ==
    LET F[n \in 0..Len(df)] ==
            IF n = 0 THEN <<>>
            ELSE IF \E j \in 1..(n-1) : CoordOf(df[j]) = CoordOf(df[n])
                 THEN F[n-1]
                 ELSE Append(F[n-1], [lat |-> df[n].lat, lon |-> df[n].lon])
    IN F[Len(df)]

\* df_coords.join(df_stops, how='cross') with the distance column
df_with_dist(coords, stops) ==
    Flatten([i \in 1..Len(coords) |->
        [j \in 1..Len(stops) |->
            [lat |-> coords[i].lat, lon |-> coords[i].lon,
             stop_name |-> stops[j].stop_name,
             distance_m |-> distance_m(coords[i].lat, coords[i].lon,
                                       stops[j].stop_lat, stops[j].stop_lon)]]])

\* the distinct (lat, lon) of a frame in the order of their first row
CoordGroups(df) ==
    LET F[n \in 0..Len(df)] ==
            IF n = 0 THEN <<>>
            ELSE IF \E j \in 1..(n-1) : CoordOf(df[j]) = CoordOf(df[n])
                 THEN F[n-1]
                 ELSE Append(F[n-1], CoordOf(df[n]))
    IN F[Len(df)]

\* a slip: no sort before first(): the first stop of the table is taken
FirstStopOf(dist, c) ==
    {dist[CHOOSE i \in 1..Len(dist) :
            /\ CoordOf(dist[i]) = c
            /\ \A j \in 1..(i-1) : CoordOf(dist[j]) # c]}

\* the rows that can come first for (lat, lon) = c after sort('distance_m')
NearestStopOf(dist, c) ==
    {r \in Rows(dist) :
        /\ CoordOf(r) = c
        /\ \A x \in Rows(dist) : CoordOf(x) = c => r.distance_m <= x.distance_m}

NearestRow(r) ==
    [lat |-> r.lat, lon |-> r.lon, nearest_stop |-> r.stop_name,
     distance_m |-> r.distance_m]

RECURSIVE FirstPerCoord(_, _)
FirstPerCoord(dist, cs) ==
    IF cs = <<>> THEN {<<>>}
    ELSE {<<NearestRow(r)>> \o rest : r \in NearestStopOf(dist, Head(cs)),
                                      rest \in FirstPerCoord(dist, Tail(cs))}

\* every frame compute_nearest_stop can return
compute_nearest_stop(coords, stops) ==
    LET dist == df_with_dist(coords, stops)
    IN  FirstPerCoord(dist, CoordGroups(dist))

\* df_rt.join(nearest, on=['lat', 'lon'], how='inner')
join_nearest(merged, nearest) ==
    Flatten([i \in 1..Len(merged) |->
        LET m == SelectSeq(nearest, LAMBDA n : CoordOf(n) = CoordOf(merged[i]))
        IN  [j \in 1..Len(m) |->
                [snapshot_ts |-> merged[i].snapshot_ts,
                 lat |-> merged[i].lat, lon |-> merged[i].lon,
                 nearest_stop |-> m[j].nearest_stop,
                 distance_m |-> m[j].distance_m]]])

----------------------------------------------------------------------------
(* Stage: nearest stop of every realtime row (main steps 7 and 10) *)

InitNearest ==
    /\ pc = "stops"
    /\ JoinIdle
    /\ SaveIdle
    /\ WorkersIdle
    /\ CanonIdle
    /\ HeadwayIdle
    /\ MainIdle
    /\ DirIdle
    /\ TimetableIdle
    /\ TripIdle
    /\ NearIdle
    /\ TarIdle

RealtimeRow ==
    /\ pc = "stops"
    /\ Len(df_merged) < MaxMerged
    /\ \E la \in Lats, lo \in Lons :
          df_merged' = Append(df_merged,
              [snapshot_ts |-> Len(df_merged) + 1, lat |-> la, lon |-> lo])
    /\ UNCHANGED <<otherVars, pc, joinVars, tripVars, tarVars, df_stops, df_coords,
                   df_nearest_stop, df_merged_neareststop>>

LoadGtfsStop ==
    /\ pc = "stops"
    /\ Len(df_stops) < MaxStops
    /\ \E st \in StopTable : df_stops' = Append(df_stops, st)
    /\ UNCHANGED <<otherVars, pc, joinVars, tripVars, tarVars, df_merged, df_coords,
                   df_nearest_stop, df_merged_neareststop>>

UniqueCoords ==
    /\ pc = "stops"
    /\ df_coords' = unique_coords(df_merged)
    /\ pc' = "coords"
    /\ UNCHANGED <<otherVars, joinVars, tripVars, tarVars, df_merged, df_stops,
                   df_nearest_stop, df_merged_neareststop>>

ComputeNearestStop ==
    /\ pc = "coords"
    /\ df_nearest_stop' \in compute_nearest_stop(df_coords, df_stops)
    /\ pc' = "nearest"
    /\ UNCHANGED <<otherVars, joinVars, tripVars, tarVars, df_merged, df_stops, df_coords,
                   df_merged_neareststop>>

JoinNearestStop ==
    /\ pc = "nearest"
    /\ df_merged_neareststop' = join_nearest(df_merged, df_nearest_stop)
    /\ pc' = "located"
    /\ UNCHANGED <<otherVars, joinVars, tripVars, tarVars, df_merged, df_stops, df_coords,
                   df_nearest_stop>>

NextNearest ==
    \/ RealtimeRow
    \/ LoadGtfsStop
    \/ UniqueCoords
    \/ ComputeNearestStop
    \/ JoinNearestStop

SpecNearest == InitNearest /\ [][NextNearest]_vars

----------------------------------------------------------------------------
(* Properties of the nearest-stop stage *)

CoordsOf(df) == {CoordOf(df[i]) : i \in 1..Len(df)}

RowsAt(df, c) == {i \in 1..Len(df) : CoordOf(df[i]) = c}

StopDistance(c, st) == distance_m(c[1], c[2], st.stop_lat, st.stop_lon)

\* one row per distinct (lat, lon), carrying a stop of minimal distance
OneNearestStopPerCoord ==
    /\ CoordsOf(df_nearest_stop) = CoordsOf(df_coords)
    /\ \A c \in CoordsOf(df_coords) :
          /\ Cardinality(RowsAt(df_nearest_stop, c)) = 1
          /\ \A i \in RowsAt(df_nearest_stop, c) :
                /\ \A st \in Rows(df_stops) :
                      df_nearest_stop[i].distance_m <= StopDistance(c, st)
                /\ \E st \in Rows(df_stops) :
                      /\ st.stop_name = df_nearest_stop[i].nearest_stop
                      /\ StopDistance(c, st) = df_nearest_stop[i].distance_m

NearestComputed == pc \in {"nearest", "located"}

\* C4 (as claimed): compute_nearest_stop returns exactly one row for every
\* distinct (lat, lon) of df_coords, with the minimal distance over all stops
\* and the name of a stop at that distance; no pair is dropped or duplicated.
C4_Claimed_OneRowPerCoord ==
    NearestComputed => OneNearestStopPerCoord

\* C4 (amended): the same, provided df_stops has at least one row; with an
\* empty df_stops the cross join is empty and the result has no rows.
C4_OneRowPerCoordWhenStopsExist ==
    NearestComputed =>
        IF df_stops # <<>> THEN OneNearestStopPerCoord
        ELSE df_nearest_stop = <<>>

\* two distinct coordinates got their nearest stop out of two stops, and the
\* nearer stop is not the first of the table for one of them
C4_Witness ==
    /\ pc = "nearest"
    /\ Len(df_stops) = 2
    /\ Len(df_coords) = 2
    /\ Len(df_merged) = 3
    /\ Len(df_nearest_stop) = 2
    /\ \E i \in 1..Len(df_nearest_stop) :
          df_nearest_stop[i].nearest_stop # df_stops[1].stop_name

EveryRowMatchesOnce ==
    /\ Len(df_merged_neareststop) = Len(df_merged)
    /\ \A i \in 1..Len(df_merged) :
          Cardinality(RowsAt(df_nearest_stop, CoordOf(df_merged[i]))) = 1
    /\ \A i \in 1..Len(df_merged) :
          Cardinality({j \in 1..Len(df_merged_neareststop) :
              df_merged_neareststop[j].snapshot_ts = df_merged[i].snapshot_ts}) = 1

\* C8 (as claimed): the inner join of the merged rows with the nearest-stop
\* table on (lat, lon) keeps the row count: every merged row matches exactly
\* one nearest-stop row.
C8_Claimed_JoinKeepsRowCount ==
    pc = "located" => EveryRowMatchesOnce

\* C8 (amended): the same, provided df_stops has at least one row; with an
\* empty df_stops the nearest-stop table is empty and the join drops every row.
C8_JoinKeepsRowCountWhenStopsExist ==
    pc = "located" =>
        IF df_stops # <<>> THEN EveryRowMatchesOnce
        ELSE df_merged_neareststop = <<>>

\* three merged rows, two of them at the same coordinate, were all kept
C8_Witness ==
    /\ pc = "located"
    /\ df_stops # <<>>
    /\ Len(df_merged) = 3
    /\ Len(df_coords) = 2
    /\ Len(df_merged_neareststop) = 3

----------------------------------------------------------------------------
(* tar2parquet: the number of workers of process_tar_to_normalized_parquet *)

AUTO_MAX_TASKS == 1000
AUTO_MAX_BYTES == 52428800
DEFAULT_CPU_COUNT == 4

WorkersArgs == { <<>>, <<0 - 1>>, <<0>>, <<1>>, <<2>> }

CpuCounts == { <<>>, <<1>>, <<8>> }

TaskCounts == {0, 1, 999, 1000, 1001}

ContentSizes == {0, 52428799, 52428800, 52428801}

\* a slip: the data is small when either measure is small
auto_detect_either(n_tasks, size, cpu) ==
    IF n_tasks < AUTO_MAX_TASKS \/ size < AUTO_MAX_BYTES THEN 1
    ELSE IF cpu = <<>> THEN DEFAULT_CPU_COUNT ELSE cpu[1]

\* cpu_count = os.cpu_count() or 4; 1 for small data, else cpu_count
auto_detect(n_tasks, size, cpu) ==
    IF n_tasks < AUTO_MAX_TASKS /\ size < AUTO_MAX_BYTES THEN 1
    ELSE IF cpu = <<>> THEN DEFAULT_CPU_COUNT ELSE cpu[1]

\* if workers is None: ... the number of workers used in phase 2
resolve_workers(w, n_tasks, size, cpu) ==
    IF w = <<>> THEN auto_detect(n_tasks, size, cpu) ELSE w[1]

\* if workers > 1: the process pool, else the sequential loop
parsing_mode(w) == IF w > 1 THEN "parse_parallel" ELSE "parse_sequential"

----------------------------------------------------------------------------
(* tar2parquet: phase 1, reading the members of the archive *)

\* the feed type inferred from the member's name, <<>> when there is none
feed_type_of(m) ==
    IF m.name = "trip_update" THEN <<"trip_updates">>
    ELSE IF m.name = "vehicle_position" THEN <<"vehicle_positions">>
    ELSE <<>>

\* one iteration of the loop over the members: the tasks after member i
read_member(tasks, i) ==
    LET m == members[i]
    IN  IF feed_type_of(m) = <<>> THEN tasks
        ELSE IF ~m.readable THEN tasks
        ELSE Append(tasks, [filename |-> i, content |-> m.content,
                            dates |-> m.dates,
                            feed_type |-> feed_type_of(m)[1]])

\* total_size_bytes after member i
read_size(total, i) ==
    LET m == members[i]
    IN  IF feed_type_of(m) = <<>> THEN total
        ELSE IF ~m.readable THEN total
        ELSE total + m.size

----------------------------------------------------------------------------
(* tar2parquet: parsing one task *)

\* load_trip_updates_from_json / load_vehicle_positions_from_json
load_from_json(task) ==
    [raises |-> task.content = "invalid",
     is_empty |-> task.content = "no_entity",
     member |-> task.filename,
     has_agency |-> task.content # "no_agency_column",
     rows |-> [i \in 1..Len(task.dates) |->
                  [agency |-> IF task.content = "no_agency_column" THEN NULL
                              ELSE task.content,
                   date_str |-> task.dates[i],
                   member |-> task.filename, row |-> i]]]

\* _process_single_json: <<>> is None
process_single_json(task) ==
    LET df == load_from_json(task)
    IN  IF df.raises THEN <<>>
        ELSE IF df.is_empty THEN <<>>
        ELSE << [feed_type |-> task.feed_type, df |-> df] >>

NewAcc ==
    [processed_count |-> 0, skipped_count |-> 0,
     detected_agencies |-> {},
     stats |-> [k \in Agencies \X FeedTypes |-> 0],
     trip_updates_dfs |-> <<>>, vehicle_positions_dfs |-> <<>>]

Store(a, feed_type, df) ==
    IF feed_type = "trip_updates"
    THEN [a EXCEPT !.trip_updates_dfs = Append(@, df)]
    ELSE [a EXCEPT !.vehicle_positions_dfs = Append(@, df)]

\* agency = df['agency'][0] if 'agency' in df.columns else 'unknown'
detected_agency(df) == IF df.has_agency THEN df.rows[1].agency ELSE "unknown"

Detect(a, feed_type, df) ==
    [a EXCEPT !.detected_agencies = @ \cup {detected_agency(df)},
              !.stats[<<detected_agency(df), feed_type>>] = @ + 1]

\* a slip: a None result is dropped without being counted
collect_parallel_uncounted(a, result, allowed_agencies) ==
    IF result = <<>> THEN a
    ELSE LET d == Detect(a, result[1].feed_type, result[1].df)
         IN  IF allowed_agencies # {} /\ detected_agency(result[1].df) \notin allowed_agencies
             THEN [d EXCEPT !.skipped_count = @ + 1]
             ELSE [Store(d, result[1].feed_type, result[1].df)
                       EXCEPT !.processed_count = @ + 1]

\* the body of the loop over as_completed(futures)
collect_parallel(a, result, allowed_agencies) ==
    IF result = <<>> THEN [a EXCEPT !.skipped_count = @ + 1]
    ELSE LET d == Detect(a, result[1].feed_type, result[1].df)
         IN  IF allowed_agencies # {} /\ detected_agency(result[1].df) \notin allowed_agencies
             THEN [d EXCEPT !.skipped_count = @ + 1]
             ELSE [Store(d, result[1].feed_type, result[1].df)
                       EXCEPT !.processed_count = @ + 1]

\* a slip: a task whose result is None is passed over without being counted
collect_sequential_uncounted(a, task, allowed_agencies) ==
    LET result == process_single_json(task)
    IN  IF result = <<>> THEN a
        ELSE LET d == Detect(a, result[1].feed_type, result[1].df)
             IN  IF allowed_agencies # {}
                    /\ detected_agency(result[1].df) \notin allowed_agencies
                 THEN [d EXCEPT !.skipped_count = @ + 1]
                 ELSE [Store(d, result[1].feed_type, result[1].df)
                           EXCEPT !.processed_count = @ + 1]

\* the body of the sequential loop over json_tasks
collect_sequential(a, task, allowed_agencies) ==
    LET result == process_single_json(task)
    IN  IF result = <<>> THEN [a EXCEPT !.skipped_count = @ + 1]
        ELSE LET d == Detect(a, result[1].feed_type, result[1].df)
             IN  IF allowed_agencies # {}
                    /\ detected_agency(result[1].df) \notin allowed_agencies
                 THEN [d EXCEPT !.skipped_count = @ + 1]
                 ELSE [Store(d, result[1].feed_type, result[1].df)
                           EXCEPT !.processed_count = @ + 1]

\* the body of the loop of process_tar_with_duckdb: try ... except: skipped
collect_duckdb(a, task, allowed_agencies) ==
    LET df == load_from_json(task)
    IN  IF df.raises THEN [a EXCEPT !.skipped_count = @ + 1]
        ELSE IF df.is_empty THEN [a EXCEPT !.skipped_count = @ + 1]
        ELSE LET d == Detect(a, task.feed_type, df)
             IN  IF allowed_agencies # {} /\ detected_agency(df) \notin allowed_agencies
                 THEN [d EXCEPT !.skipped_count = @ + 1]
                 ELSE [Store(d, task.feed_type, df)
                           EXCEPT !.processed_count = @ + 1]

----------------------------------------------------------------------------
(* tar2parquet: one call of process_tar_with_duckdb or of                  *)
(* process_tar_to_normalized_parquet on one archive                        *)

InitTar ==
    /\ pc = "tar"
    /\ JoinIdle
    /\ SaveIdle
    /\ WorkersIdle
    /\ CanonIdle
    /\ HeadwayIdle
    /\ MainIdle
    /\ DirIdle
    /\ TimetableIdle
    /\ TripIdle
    /\ NearIdle
    /\ call \in Calls
    /\ members = <<>>
    /\ json_tasks = <<>>
    /\ cursor = 0
    /\ futures = <<>>
    /\ acc = NewAcc

\* the archive given to the call
TarMember ==
    /\ pc = "tar"
    /\ Len(members) < MaxMembers
    /\ \E m \in MemberKinds : members' = Append(members, m)
    /\ UNCHANGED <<otherVars, pc, joinVars, tripVars, nearVars,
                   call, json_tasks, cursor, futures, acc>>

OpenTar ==
    /\ pc = "tar"
    /\ pc' = "phase1"
    /\ cursor' = 0
    /\ UNCHANGED <<otherVars, joinVars, tripVars, nearVars,
                   call, members, json_tasks, futures, acc>>

ReadMember ==
    /\ pc = "phase1"
    /\ cursor < Len(members)
    /\ json_tasks' = read_member(json_tasks, cursor + 1)
    /\ total_size_bytes' = read_size(total_size_bytes, cursor + 1)
    /\ cursor' = cursor + 1
    /\ UNCHANGED <<pc, joinVars, tripVars, nearVars, call, members, futures, acc,
                   saveVars, workers, parse_log, canonVars, headwayVars,
                   mainVars, dirVars, ttVars>>

\* phase 2 begins: process_tar_with_duckdb runs its loop; the other function
\* settles the number of workers and with workers > 1 submits every task to
\* the pool
StartPhase2 ==
    /\ pc = "phase1"
    /\ cursor = Len(members)
    /\ cursor' = 0
    /\ IF running_function(call) = "process_tar_with_duckdb"
       THEN pc' = "parse_duckdb" /\ futures' = futures /\ workers' = workers
       ELSE LET w == resolve_workers(workers_argument(call), Len(json_tasks),
                                     total_size_bytes, call.cpu_count)
            IN  /\ workers' = <<w>>
                /\ pc' = parsing_mode(w)
                /\ futures' = IF w > 1
                              THEN [i \in 1..Len(json_tasks) |->
                                       [state |-> "pending", result |-> <<>>]]
                              ELSE futures
    /\ UNCHANGED <<joinVars, tripVars, nearVars, call, members, json_tasks, acc,
                   saveVars, total_size_bytes, parse_log, canonVars, headwayVars,
                   mainVars, dirVars, ttVars>>

\* one iteration of the loop of process_tar_with_duckdb, which parses the
\* task itself
ParseDuckdb ==
    /\ pc = "parse_duckdb"
    /\ cursor < Len(json_tasks)
    /\ acc' = collect_duckdb(acc, json_tasks[cursor + 1],
                             parse_agency_filter(call.agency_filter))
    /\ parse_log' = Append(parse_log, json_tasks[cursor + 1].filename)
    /\ cursor' = cursor + 1
    /\ UNCHANGED <<pc, joinVars, tripVars, nearVars, call, members, json_tasks,
                   futures, saveVars, total_size_bytes, workers, canonVars,
                   headwayVars, mainVars, dirVars, ttVars>>

\* one iteration of for task in json_tasks: _process_single_json(task) is
\* called in the calling process
ParseSequential ==
    /\ pc = "parse_sequential"
    /\ cursor < Len(json_tasks)
    /\ acc' = collect_sequential(acc, json_tasks[cursor + 1],
                                 parse_agency_filter(call.agency_filter))
    /\ parse_log' = Append(parse_log, json_tasks[cursor + 1].filename)
    /\ cursor' = cursor + 1
    /\ UNCHANGED <<pc, joinVars, tripVars, nearVars, call, members, json_tasks,
                   futures, saveVars, total_size_bytes, workers, canonVars,
                   headwayVars, mainVars, dirVars, ttVars>>

\* a worker process finishes a submitted task
WorkerCompletes ==
    /\ pc = "parse_parallel"
    /\ \E i \in 1..Len(futures) :
          /\ futures[i].state = "pending"
          /\ futures' = [futures EXCEPT ![i] =
                [state |-> "done", result |-> process_single_json(json_tasks[i])]]
    /\ UNCHANGED <<otherVars, pc, joinVars, tripVars, nearVars,
                   call, members, json_tasks, cursor, acc>>

\* as_completed yields a finished future and the loop body handles it
ConsumeCompleted ==
    /\ pc = "parse_parallel"
    /\ \E i \in 1..Len(futures) :
          /\ futures[i].state = "done"
          /\ acc' = collect_parallel(acc, futures[i].result, parse_agency_filter(call.agency_filter))
          /\ futures' = [futures EXCEPT ![i].state = "consumed"]
    /\ cursor' = cursor + 1
    /\ UNCHANGED <<otherVars, pc, joinVars, tripVars, nearVars, call, members, json_tasks>>

\* a slip: show_agencies is not tested
after_summary_saving(c) == "phase3"

\* if show_agencies: return
after_summary(c) == IF c.show_agencies THEN "returned" ELSE "phase3"

\* output_dir.mkdir(parents=True, exist_ok=True): only the body of
\* process_tar_with_duckdb has it
mkdir_output_dir(c) == running_function(c) = "process_tar_with_duckdb"

\* pl.concat(dfs, how="vertical") of frames of different columns, or
\* combined['agency'] on a frame without the column, raises
phase3_raises(dfs) == \E i \in 1..Len(dfs) : ~dfs[i].has_agency

\* pl.concat(dfs, how="vertical")
RECURSIVE concat(_)
concat(dfs) == IF dfs = <<>> THEN <<>> ELSE Head(dfs).rows \o concat(Tail(dfs))

\* sorted(combined['agency'].unique())
RECURSIVE sorted_agencies(_)
sorted_agencies(S) ==
    IF S = {} THEN <<>>
    ELSE LET a == CHOOSE x \in S : \A y \in S : AgencyRank(x) <= AgencyRank(y)
         IN  <<a>> \o sorted_agencies(S \ {a})

\* sorted(agency_df['date_str'].unique())
RECURSIVE sorted_dates(_)
sorted_dates(S) ==
    IF S = {} THEN <<>>
    ELSE LET d == CHOOSE x \in S : \A y \in S : x <= y
         IN  <<d>> \o sorted_dates(S \ {d})

\* the calls of save_to_parquet_partitioned for one agency
save_calls_of_agency(combined, agency, ft) ==
    LET InAgency(r) == r.agency = agency
        agency_df == SelectSeq(combined, InAgency)
        dates == sorted_dates({agency_df[i].date_str : i \in 1..Len(agency_df)})
    IN  [k \in 1..Len(dates) |->
            LET OnDate(r) == r.date_str = dates[k]
            IN  [df |-> SelectSeq(agency_df, OnDate), agency |-> agency,
                 feed_type |-> ft, date_str |-> dates[k]]]

\* the calls of save_to_parquet_partitioned for the frames of one feed type
save_calls(dfs, ft) ==
    IF dfs = <<>> THEN <<>>
    ELSE LET combined == concat(dfs)
             agencies == sorted_agencies({combined[i].agency : i \in 1..Len(combined)})
         IN  Flatten([k \in 1..Len(agencies) |->
                         save_calls_of_agency(combined, agencies[k], ft)])

\* the loop of phase 2 has ended: the summary is printed; with show_agencies
\* the function returns, else phase 3 begins
Summary ==
    /\ \/ pc \in {"parse_duckdb", "parse_sequential"} /\ cursor = Len(json_tasks)
       \/ /\ pc = "parse_parallel"
          /\ \A i \in 1..Len(futures) : futures[i].state = "consumed"
    /\ pc' = after_summary(call)
    /\ output_dir' = (after_summary(call) = "phase3" /\ mkdir_output_dir(call))
    /\ UNCHANGED <<joinVars, tripVars, nearVars, tarVars, workersVars, saved,
                   canonVars, headwayVars, mainVars, dirVars, ttVars>>

\* the trip_updates block of phase 3; an exception leaves the function
SaveTripUpdates ==
    /\ pc = "phase3"
    /\ IF phase3_raises(acc.trip_updates_dfs)
       THEN saved' = saved /\ pc' = "raised"
       ELSE /\ saved' = saved \o save_calls(acc.trip_updates_dfs, "trip_updates")
            /\ pc' = "save_vehicle_positions"
    /\ UNCHANGED <<joinVars, tripVars, nearVars, tarVars, workersVars, output_dir,
                   canonVars, headwayVars, mainVars, dirVars, ttVars>>

\* the vehicle_positions block of phase 3
SaveVehiclePositions ==
    /\ pc = "save_vehicle_positions"
    /\ IF phase3_raises(acc.vehicle_positions_dfs)
       THEN saved' = saved /\ pc' = "raised"
       ELSE /\ saved' = saved \o save_calls(acc.vehicle_positions_dfs,
                                             "vehicle_positions")
            /\ pc' = "returned"
    /\ UNCHANGED <<joinVars, tripVars, nearVars, tarVars, workersVars, output_dir,
                   canonVars, headwayVars, mainVars, dirVars, ttVars>>

NextTar ==
    \/ TarMember
    \/ OpenTar
    \/ ReadMember
    \/ StartPhase2
    \/ ParseDuckdb
    \/ ParseSequential
    \/ WorkerCompletes
    \/ ConsumeCompleted
    \/ Summary
    \/ SaveTripUpdates
    \/ SaveVehiclePositions

\* the loops of phase 2 have ended
Phase2Done == pc \in {"phase3", "save_vehicle_positions", "returned", "raised"}

SpecTar == InitTar /\ [][NextTar]_vars

----------------------------------------------------------------------------
(* tar2parquet: the sequential run taken as the reference *)

\* the tasks phase 1 leaves after the first n members
RECURSIVE tasks_of(_)
tasks_of(n) == IF n = 0 THEN <<>> ELSE read_member(tasks_of(n - 1), n)

\* the sequential loop (workers = 1) run over a list of tasks
RECURSIVE sequential_run(_, _)
sequential_run(tasks, allowed_agencies) ==
    IF tasks = <<>> THEN NewAcc
    ELSE collect_sequential(
             sequential_run(SubSeq(tasks, 1, Len(tasks) - 1), allowed_agencies),
             tasks[Len(tasks)], allowed_agencies)

Occurrences(x, s) == Cardinality({i \in 1..Len(s) : s[i] = x})

SameMultiset(s, t) ==
    /\ Len(s) = Len(t)
    /\ \A x \in Rows(s) \cup Rows(t) : Occurrences(x, s) = Occurrences(x, t)

ParallelCall ==
    /\ running_function(call) = "process_tar_to_normalized_parquet"
    /\ workers # <<>>
    /\ workers[1] > 1

\* C9: when a run with workers > 1 reaches phase 3, every submitted future has
\* completed and been handled, and whatever the order of completion the
\* counters, the detected agencies, the statistics and the multisets of
\* collected trip_updates and vehicle_positions frames are those of the
\* sequential run over the same archive.
C9_ParallelEqualsSequential ==
    (Phase2Done /\ ParallelCall) =>
        LET seq == sequential_run(tasks_of(Len(members)), parse_agency_filter(call.agency_filter))
        IN  /\ Len(futures) = Len(json_tasks)
            /\ \A i \in 1..Len(futures) : futures[i].state = "consumed"
            /\ acc.processed_count = seq.processed_count
            /\ acc.skipped_count = seq.skipped_count
            /\ acc.detected_agencies = seq.detected_agencies
            /\ acc.stats = seq.stats
            /\ SameMultiset(acc.trip_updates_dfs, seq.trip_updates_dfs)
            /\ SameMultiset(acc.vehicle_positions_dfs, seq.vehicle_positions_dfs)

\* a parallel run has reached phase 3 after its futures completed out of the
\* order of submission, with a skipped task among them
C9_Witness ==
    /\ pc = "phase3"
    /\ ParallelCall
    /\ acc.skipped_count > 0
    /\ Len(acc.trip_updates_dfs) = 2
    /\ acc.trip_updates_dfs[1].member > acc.trip_updates_dfs[2].member

HasFeedType(i) == feed_type_of(members[i]) # <<>>

ReachedPhase2(i) == HasFeedType(i) /\ members[i].readable

\* the contents the parser makes a non-empty frame of
FrameContents == {"chitetsu_tram", "chitetsu_bus", "no_agency_column"}

GoodMember(i) == ReachedPhase2(i) /\ members[i].content \in FrameContents

BadInPhase2(i) == ReachedPhase2(i) /\ members[i].content \notin FrameContents

\* the agency the frame of member i counts for
AgencyOfMember(i) ==
    IF members[i].content = "no_agency_column" THEN "unknown"
    ELSE members[i].content

FilteredOut(i) ==
    /\ GoodMember(i)
    /\ parse_agency_filter(call.agency_filter) # {}
    /\ AgencyOfMember(i) \notin parse_agency_filter(call.agency_filter)

Kept(i) == GoodMember(i) /\ ~FilteredOut(i)

FramesOf(feed_type) ==
    IF feed_type = "trip_updates" THEN acc.trip_updates_dfs
    ELSE acc.vehicle_positions_dfs

MemberFrames(i, feed_type) ==
    Cardinality({j \in 1..Len(FramesOf(feed_type)) :
                    FramesOf(feed_type)[j].member = i})

\* C10: in both functions, a member whose extraction raises never becomes a
\* task, a task whose parsing raises or gives an empty frame adds one to
\* skipped_count and no frame, every task handled so far is counted exactly
\* once so the loop goes on past a bad member, and at phase 3 every other
\* member of a known feed type has its frame collected exactly once.
C10_BadMemberSkipped ==
    /\ (pc \in {"parse_duckdb", "parse_sequential", "parse_parallel"}
           \/ Phase2Done) =>
          /\ json_tasks = tasks_of(Len(members))
          /\ \A t \in Rows(json_tasks) : ReachedPhase2(t.filename)
          /\ acc.processed_count + acc.skipped_count = cursor
          /\ \A ft \in FeedTypes : \A f \in Rows(FramesOf(ft)) :
                GoodMember(f.member)
    /\ Phase2Done =>
          /\ cursor = Len(json_tasks)
          /\ Len(json_tasks) = Cardinality({i \in 1..Len(members) : ReachedPhase2(i)})
          /\ acc.skipped_count =
                Cardinality({i \in 1..Len(members) : BadInPhase2(i)})
                + Cardinality({i \in 1..Len(members) : FilteredOut(i)})
          /\ acc.processed_count = Cardinality({i \in 1..Len(members) : Kept(i)})
          /\ \A i \in 1..Len(members) : \A ft \in FeedTypes :
                MemberFrames(i, ft) =
                    IF Kept(i) /\ feed_type_of(members[i]) = <<ft>> THEN 1 ELSE 0

\* a run has reached phase 3 over an archive holding a member whose extraction
\* raised, a task whose parsing raised or gave an empty frame, and a good
\* member after them whose frame was collected
C10_Witness ==
    /\ pc = "phase3"
    /\ \E i, j, k \in 1..Len(members) :
          /\ i < k
          /\ j < k
          /\ HasFeedType(i) /\ ~members[i].readable
          /\ BadInPhase2(j)
          /\ Kept(k)
          /\ MemberFrames(k, feed_type_of(members[k])[1]) = 1
    /\ acc.skipped_count = 1

----------------------------------------------------------------------------
(* tar2parquet: _canonicalize_name_for_parser                              *)
(*                                                                         *)
(* The content is the JSON value json.loads gives, as far as the function  *)
(* reads it.  A timestamp is <<>> when the key is missing or null, else    *)
(* <<t>> with t an integer ("int"), a string of digits ("str"), a string   *)
(* int() rejects ("text") or an integer beyond the range of                *)
(* datetime.utcfromtimestamp ("huge").  A header, a trip_update or a       *)
(* vehicle is "absent", a "dict", or "text" (some value that is no dict).  *)

Ts(kind, value) == [kind |-> kind, value |-> value]

HeaderTimestamps ==
    { <<>>, <<Ts("int", 0)>>, <<Ts("int", 86399)>>, <<Ts("int", 0 - 1)>>,
      <<Ts("int", 951782400)>>, <<Ts("str", 1700000000)>>,
      <<Ts("text", 0)>>, <<Ts("huge", 0)>> }

EntityTimestamps == { <<>>, <<Ts("int", 1700000000)>>, <<Ts("str", 951782399)>> }

Part(kind, timestamp) == [kind |-> kind, timestamp |-> timestamp]

Headers ==
    {Part("absent", <<>>), Part("text", <<>>)}
        \cup {Part("dict", t) : t \in HeaderTimestamps}

EntityParts ==
    {Part("absent", <<>>), Part("text", <<>>)}
        \cup {Part("dict", t) : t \in EntityTimestamps}

Entities ==
    {[is_dict |-> FALSE, trip_update |-> Part("absent", <<>>),
      vehicle |-> Part("absent", <<>>)]}
        \cup {[is_dict |-> TRUE, trip_update |-> tu, vehicle |-> v] :
                  tu \in EntityParts, v \in EntityParts}

\* "invalid": json.loads raises; "list": the JSON value is no dict
ContentKinds == {"invalid", "list", "dict"}

\* the entity key: missing, a list, or a number (a value that cannot be iterated)
EntityKinds == {"absent", "list", "number"}

EPOCH == <<19700101, 0>>

\* datetime.utcfromtimestamp(ts_int): the civil date of a day number
civil_from_days(days) ==
    LET z == days + 719468
        era == z \div 146097
        doe == z - era * 146097
        yoe == (doe - (doe \div 1460) + (doe \div 36524) - (doe \div 146096)) \div 365
        doy == doe - (365 * yoe + (yoe \div 4) - (yoe \div 100))
        mp == (5 * doy + 2) \div 153
        d == doy - ((153 * mp + 2) \div 5) + 1
        m == IF mp < 10 THEN mp + 3 ELSE mp - 9
        y == yoe + era * 400 + (IF m <= 2 THEN 1 ELSE 0)
    IN  <<y, m, d>>

\* datetime.utcfromtimestamp(ts_int).strftime("%Y%m%d_%H%M%S"): the digits
\* before and after the underscore
utc_strftime(ts_int) ==
    LET days == ts_int \div 86400
        secs == ts_int % 86400
        ymd == civil_from_days(days)
    IN  << ymd[1] * 10000 + ymd[2] * 100 + ymd[3],
           (secs \div 3600) * 10000 + ((secs % 3600) \div 60) * 100 + (secs % 60) >>

\* a slip: the vehicle is read whenever the trip_update gave no timestamp
entity_ts_either(ent) ==
    IF ~ent.is_dict THEN <<>>
    ELSE IF ent.trip_update.kind = "dict" /\ ent.trip_update.timestamp # <<>>
    THEN ent.trip_update.timestamp
    ELSE IF ent.vehicle.kind = "dict" THEN ent.vehicle.timestamp
    ELSE <<>>

\* the timestamp of one entity, as the loop body reads it
entity_ts(ent) ==
    IF ~ent.is_dict THEN <<>>
    ELSE IF ent.trip_update.kind = "dict" THEN ent.trip_update.timestamp
    ELSE IF ent.vehicle.kind = "dict" THEN ent.vehicle.timestamp
    ELSE <<>>

\* for ent in ents: ... if ts is not None: break
RECURSIVE scan_entities(_)
scan_entities(ents) ==
    IF ents = <<>> THEN <<>>
    ELSE IF entity_ts(Head(ents)) # <<>> THEN entity_ts(Head(ents))
    ELSE scan_entities(Tail(ents))

\* the body of the try block: <<>> when an exception is raised in it,
\* else <<ts_str>>
try_ts_str(c) ==
    IF c.kind = "invalid" THEN <<>>
    ELSE IF c.kind # "dict" THEN <<EPOCH>>
    ELSE IF c.header.kind = "text" THEN <<>>
    ELSE IF c.header.timestamp = <<>> /\ c.entity_kind = "number" THEN <<>>
    ELSE LET ts == IF c.header.timestamp # <<>> THEN c.header.timestamp
                   ELSE IF c.entity_kind = "absent" THEN <<>>
                   ELSE scan_entities(c.entity)
         IN  IF ts = <<>> THEN <<EPOCH>>
             ELSE IF ts[1].kind \in {"text", "huge"} THEN <<>>
             ELSE <<utc_strftime(ts[1].value)>>

\* _canonicalize_name_for_parser: f"gtfs_rt_{feed_type}_{ts_str}.json"
canonicalize_name_for_parser(a) ==
    LET r == try_ts_str(a.content)
        ts_str == IF r = <<>> THEN EPOCH ELSE r[1]
    IN  [raised |-> FALSE,
         name |-> <<"gtfs_rt_", a.feed_type, "_", ts_str[1], "_", ts_str[2], ".json">>]

InitCanon ==
    /\ pc = "canon_args"
    /\ JoinIdle /\ TripIdle /\ NearIdle /\ TarIdle
    /\ SaveIdle /\ WorkersIdle /\ HeadwayIdle /\ MainIdle /\ DirIdle /\ TimetableIdle
    /\ \E ft \in FeedTypes, k \in ContentKinds, h \in Headers, ek \in EntityKinds :
          /\ k # "dict" => h = Part("absent", <<>>) /\ ek = "absent"
          /\ canon_args = [feed_type |-> ft,
                           content |-> [kind |-> k, header |-> h,
                                        entity_kind |-> ek, entity |-> <<>>]]
    /\ canon_name = <<>>

\* one more entity in the feed
FeedEntity ==
    /\ pc = "canon_args"
    /\ canon_args.content.entity_kind = "list"
    /\ Len(canon_args.content.entity) < MaxEntities
    /\ \E ent \in Entities :
          canon_args' = [canon_args EXCEPT !.content.entity = Append(@, ent)]
    /\ UNCHANGED <<pc, joinVars, tripVars, nearVars, tarVars, saveVars, workersVars,
                   headwayVars, mainVars, dirVars, ttVars, canon_name>>

Canonicalize ==
    /\ pc = "canon_args"
    /\ canon_name' = <<canonicalize_name_for_parser(canon_args)>>
    /\ pc' = "canon_done"
    /\ UNCHANGED <<joinVars, tripVars, nearVars, tarVars, saveVars, workersVars,
                   headwayVars, mainVars, dirVars, ttVars, canon_args>>

NextCanon ==
    \/ FeedEntity
    \/ Canonicalize

SpecCanon == InitCanon /\ [][NextCanon]_vars

CanonContent == canon_args.content

CanonTime == <<canon_name[1].name[4], canon_name[1].name[6]>>

\* the renderings datetime.utcfromtimestamp(...).strftime(...) gives for the
\* integers of the timestamp domains
ExpectedRendering(ts_int) ==
    CASE ts_int = 0 -> <<19700101, 0>>
      [] ts_int = 0 - 1 -> <<19691231, 235959>>
      [] ts_int = 86399 -> <<19700101, 235959>>
      [] ts_int = 951782399 -> <<20000228, 235959>>
      [] ts_int = 951782400 -> <<20000229, 0>>
      [] ts_int = 1700000000 -> <<20231114, 221320>>

\* some timestamp is present in the header or in an entity
AnyTimestamp(c) ==
    /\ c.kind = "dict"
    /\ \/ c.header.timestamp # <<>>
       \/ \E i \in 1..Len(c.entity) :
             /\ c.entity[i].is_dict
             /\ \/ c.entity[i].trip_update.timestamp # <<>>
                \/ c.entity[i].vehicle.timestamp # <<>>

\* C11 as claimed: the time part is 19700101_000000 exactly when no timestamp
\* is found or the content cannot be decoded.
C11_Claimed_EpochExactlyWhenNoTimestamp ==
    pc = "canon_done" =>
        (CanonTime = EPOCH <=>
            (CanonContent.kind = "invalid" \/ ~AnyTimestamp(CanonContent)))

\* the timestamp an entity yields: that of its trip_update when the
\* trip_update is a dict, that of its vehicle only when it has no trip_update
\* dict
YieldedTs(ent) ==
    IF ~ent.is_dict THEN <<>>
    ELSE IF ent.trip_update.kind = "dict" THEN ent.trip_update.timestamp
    ELSE IF ent.vehicle.kind = "dict" THEN ent.vehicle.timestamp
    ELSE <<>>

Yielding(c) == {i \in 1..Len(c.entity) : YieldedTs(c.entity[i]) # <<>>}

\* the timestamp found: the header's, else that of the first yielding entity
FoundTs(c) ==
    IF c.header.timestamp # <<>> THEN c.header.timestamp
    ELSE IF Yielding(c) = {} THEN <<>>
    ELSE YieldedTs(c.entity[CHOOSE i \in Yielding(c) :
                                \A j \in Yielding(c) : i <= j])

\* the try block runs to its end without an exception up to the conversion
WellFormed(c) ==
    /\ c.kind = "dict"
    /\ c.header.kind # "text"
    /\ ~(c.header.timestamp = <<>> /\ c.entity_kind = "number")

Convertible(ts) == ts # <<>> /\ ts[1].kind \in {"int", "str"}

\* C11: the function never raises and returns gtfs_rt_{feed_type}_{time}.json;
\* the time is the UTC rendering of the timestamp found (the header's, else
\* that of the first entity yielding one) when the content is well formed
\* and the timestamp converts, and 19700101_000000 in every other case.
C11_CanonicalName ==
    pc = "canon_done" =>
        /\ canon_name[1].raised = FALSE
        /\ canon_name[1].name[1] = "gtfs_rt_"
        /\ canon_name[1].name[2] = canon_args.feed_type
        /\ canon_name[1].name[3] = "_"
        /\ canon_name[1].name[5] = "_"
        /\ canon_name[1].name[7] = ".json"
        /\ CanonTime =
              IF WellFormed(CanonContent) /\ Convertible(FoundTs(CanonContent))
              THEN ExpectedRendering(FoundTs(CanonContent)[1].value)
              ELSE EPOCH

\* the name was made from the timestamp of the second entity: the header has
\* none and the first entity has a trip_update without a timestamp beside a
\* vehicle with one
C11_Witness ==
    /\ pc = "canon_done"
    /\ CanonContent.kind = "dict"
    /\ CanonContent.header.timestamp = <<>>
    /\ Len(CanonContent.entity) = 2
    /\ CanonContent.entity[1].is_dict
    /\ CanonContent.entity[1].trip_update = Part("dict", <<>>)
    /\ CanonContent.entity[1].vehicle = Part("dict", <<Ts("int", 1700000000)>>)
    /\ CanonContent.entity[2].is_dict
    /\ CanonContent.entity[2].trip_update = Part("dict", <<Ts("str", 951782399)>>)
    /\ CanonTime = <<20000228, 235959>>

----------------------------------------------------------------------------
(* tar2parquet: show_agencies, the agency filter and phase 3 *)

MemberIds == 1..Len(members)

\* C12: a call with show_agencies never reaches phase 3: it saves nothing and
\* does not create the output directory, and it returns with the agencies of
\* every parsed frame detected.
C12_ShowAgenciesSavesNothing ==
    call.show_agencies =>
        /\ saved = <<>>
        /\ output_dir = FALSE
        /\ pc \notin {"phase3", "save_vehicle_positions"}
        /\ pc = "returned" =>
              acc.detected_agencies =
                  {AgencyOfMember(i) : i \in {j \in MemberIds : GoodMember(j)}}

\* a call with show_agencies has returned with frames collected and agencies
\* detected
C12_Witness ==
    /\ pc = "returned"
    /\ call.show_agencies
    /\ acc.processed_count > 0
    /\ acc.detected_agencies = {"chitetsu_tram", "chitetsu_bus"}
    /\ saved = <<>>

\* the agencies the filter names, surrounding whitespace stripped
FilterNames == IF call.agency_filter = <<>> THEN {} ELSE {"chitetsu_tram", "unknown"}

OtherAgency(i) == GoodMember(i) /\ AgencyOfMember(i) \notin FilterNames

\* C13: with a filter, every collected frame and every frame and row saved
\* is of an agency the filter names, and a frame of another agency is
\* counted as skipped and neither collected nor saved; with no filter the
\* frame of every good member is collected.
C13_AgencyFilter ==
    /\ call.agency_filter # <<>> =>
          /\ \A ft \in FeedTypes : \A f \in Rows(FramesOf(ft)) :
                AgencyOfMember(f.member) \in FilterNames
          /\ \A k \in 1..Len(saved) :
                /\ saved[k].agency \in FilterNames
                /\ \A r \in Rows(saved[k].df) :
                      r.agency \in FilterNames /\ ~OtherAgency(r.member)
          /\ Phase2Done =>
                /\ acc.skipped_count =
                      Cardinality({i \in MemberIds : BadInPhase2(i)})
                      + Cardinality({i \in MemberIds : OtherAgency(i)})
                /\ acc.processed_count =
                      Cardinality({i \in MemberIds :
                                      GoodMember(i) /\ ~OtherAgency(i)})
    /\ (call.agency_filter = <<>> /\ Phase2Done) =>
          \A i \in MemberIds : GoodMember(i) =>
              MemberFrames(i, feed_type_of(members[i])[1]) = 1

\* a filtered run has saved the frame of a named agency and skipped the frame
\* of another agency
C13_Witness ==
    /\ pc = "returned"
    /\ call.agency_filter # <<>>
    /\ saved # <<>>
    /\ \E i, j \in MemberIds :
          /\ OtherAgency(i)
          /\ GoodMember(j) /\ ~OtherAgency(j)
    /\ acc.skipped_count = 1

\* the rows collected for a feed type
CollectedRows(ft) ==
    UNION {Rows(FramesOf(ft)[j].rows) : j \in 1..Len(FramesOf(ft))}

CallsFor(ft, agency, date_str) ==
    {k \in 1..Len(saved) : /\ saved[k].feed_type = ft
                           /\ saved[k].agency = agency
                           /\ saved[k].date_str = date_str}

\* C14: when phase 3 is over, every (feed type, agency, date_str) among the
\* collected rows has exactly one call of save_to_parquet_partitioned, whose
\* frame holds exactly the collected rows of that feed type, agency and
\* date_str, once each; no other call is made; and the calls of one feed type
\* come in ascending order of agency, then of date_str.
C14_OneSavePerPartition ==
    (pc \in {"returned", "raised"} /\ ~call.show_agencies) =>
        /\ \A ft \in FeedTypes : \A r \in CollectedRows(ft) :
              /\ Cardinality(CallsFor(ft, r.agency, r.date_str)) = 1
              /\ Cardinality({k \in 1..Len(saved) :
                     saved[k].feed_type = ft /\ r \in Rows(saved[k].df)}) = 1
        /\ \A k \in 1..Len(saved) :
              /\ saved[k].df # <<>>
              /\ Rows(saved[k].df) =
                    {r \in CollectedRows(saved[k].feed_type) :
                        r.agency = saved[k].agency /\ r.date_str = saved[k].date_str}
              /\ Cardinality(Rows(saved[k].df)) = Len(saved[k].df)
        /\ \A k, l \in 1..Len(saved) :
              (k < l /\ saved[k].feed_type = saved[l].feed_type) =>
                  \/ AgencyRank(saved[k].agency) < AgencyRank(saved[l].agency)
                  \/ /\ saved[k].agency = saved[l].agency
                     /\ saved[k].date_str < saved[l].date_str

----------------------------------------------------------------------------
(* gtfs_static: headway of the scheduled departures                        *)
(*                                                                         *)
(* A trip_id is the sequence of its underscore-delimited fields; a         *)
(* departure_time is <<>> (an empty field, read as null) or <<<<hh, mm,    *)
(* ss>>>>.                                                                 *)

TripIds ==
    { <<"weekday", "minamitoyama", "3001">>,
      <<"weekday", "toyamaeki", "3003", "0805">>,
      <<"weekday", "3001">> }

StopIds == {"S1", "S2"}

DepartureTimes == { <<>>, << <<8, 0, 0>> >>, << <<8, 10, 30>> >>, << <<24, 5, 0>> >> }

\* the order sort() gives the route and stop columns, nulls first
RouteRank(r) ==
    CASE r = NULL -> 0
      [] r = "3001" -> 1
      [] r = "3003" -> 2

StopRank(x) == IF x = "S1" THEN 1 ELSE 2

\* departure_seconds_expr
departure_seconds_expr(departure_time) ==
    IF departure_time = <<>> THEN <<>>
    ELSE << departure_time[1][1] * 3600 + departure_time[1][2] * 60
              + departure_time[1][3] >>

\* route_extracted: str.extract(r'^[^_]+_[^_]+_([^_]+)')
route_extracted(trip_id) == IF Len(trip_id) >= 3 THEN trip_id[3] ELSE NULL

with_columns(r) ==
    [trip_id |-> r.trip_id, stop_id |-> r.stop_id,
     departure_time |-> r.departure_time,
     departure_time_seconds |-> departure_seconds_expr(r.departure_time),
     route_id_extracted |-> route_extracted(r.trip_id)]

\* a before b in sort(["route_id_extracted", "stop_id", "departure_time_seconds"])
HeadwaySortBefore(a, b) ==
    \/ RouteRank(a.route_id_extracted) < RouteRank(b.route_id_extracted)
    \/ /\ a.route_id_extracted = b.route_id_extracted
       /\ \/ StopRank(a.stop_id) < StopRank(b.stop_id)
          \/ /\ a.stop_id = b.stop_id
             /\ b.departure_time_seconds # <<>>
             /\ \/ a.departure_time_seconds = <<>>
                \/ a.departure_time_seconds[1] < b.departure_time_seconds[1]

RECURSIVE headway_insert(_, _)
headway_insert(sorted, r) ==
    IF sorted = <<>> THEN <<r>>
    ELSE IF HeadwaySortBefore(r, Head(sorted)) THEN <<r>> \o sorted
    ELSE <<Head(sorted)>> \o headway_insert(Tail(sorted), r)

RECURSIVE headway_sort(_)
headway_sort(df) ==
    IF df = <<>> THEN <<>>
    ELSE headway_insert(headway_sort(SubSeq(df, 1, Len(df) - 1)), df[Len(df)])

SameRouteStop(a, b) ==
    a.route_id_extracted = b.route_id_extracted /\ a.stop_id = b.stop_id

\* a - b on nullable integers
Sub3(a, b) == IF a = <<>> \/ b = <<>> THEN <<>> ELSE <<a[1] - b[1]>>

\* a slip: diff() without over(): the row before, whatever its group
diff_plain(df, i) ==
    IF i = 1 THEN <<>>
    ELSE Sub3(df[i].departure_time_seconds, df[i - 1].departure_time_seconds)

\* pl.col("departure_time_seconds").diff().over(["route_id_extracted", "stop_id"])
diff_over(df, i) ==
    LET before == {j \in 1..(i - 1) : SameRouteStop(df[j], df[i])}
    IN  IF before = {} THEN <<>>
        ELSE LET j == CHOOSE x \in before : \A y \in before : y <= x
             IN  Sub3(df[i].departure_time_seconds, df[j].departure_time_seconds)

\* df_lazy
headway(rows) ==
    LET sorted == headway_sort([i \in 1..Len(rows) |-> with_columns(rows[i])])
    IN  [i \in 1..Len(sorted) |->
            [trip_id |-> sorted[i].trip_id, stop_id |-> sorted[i].stop_id,
             departure_time |-> sorted[i].departure_time,
             departure_time_seconds |-> sorted[i].departure_time_seconds,
             route_id_extracted |-> sorted[i].route_id_extracted,
             headway_s |-> diff_over(sorted, i)]]

InitHeadway ==
    /\ pc = "scan_csv"
    /\ JoinIdle /\ TripIdle /\ NearIdle /\ TarIdle
    /\ SaveIdle /\ WorkersIdle /\ CanonIdle /\ MainIdle /\ DirIdle /\ TimetableIdle
    /\ stop_times = <<>>
    /\ df_lazy = <<>>

\* one more row of stop_times.txt
StopTimeRow ==
    /\ pc = "scan_csv"
    /\ Len(stop_times) < MaxStopTimes
    /\ \E t \in TripIds, x \in StopIds, d \in DepartureTimes :
          stop_times' = Append(stop_times, [trip_id |-> t, stop_id |-> x,
                                            departure_time |-> d])
    /\ UNCHANGED <<pc, joinVars, tripVars, nearVars, tarVars, saveVars, workersVars,
                   canonVars, mainVars, dirVars, ttVars, df_lazy>>

ComputeHeadway ==
    /\ pc = "scan_csv"
    /\ df_lazy' = headway(stop_times)
    /\ pc' = "collected"
    /\ UNCHANGED <<joinVars, tripVars, nearVars, tarVars, saveVars, workersVars,
                   canonVars, mainVars, dirVars, ttVars, stop_times>>

NextHeadway ==
    \/ StopTimeRow
    \/ ComputeHeadway

SpecHeadway == InitHeadway /\ [][NextHeadway]_vars

GroupBefore(i) ==
    {j \in 1..(i - 1) :
        /\ df_lazy[j].route_id_extracted = df_lazy[i].route_id_extracted
        /\ df_lazy[j].stop_id = df_lazy[i].stop_id}

\* the seconds the times of the domain stand for
SecondsOf(departure_time) ==
    CASE departure_time = <<>> -> <<>>
      [] departure_time = << <<8, 0, 0>> >> -> <<28800>>
      [] departure_time = << <<8, 10, 30>> >> -> <<29430>>
      [] departure_time = << <<24, 5, 0>> >> -> <<86700>>

\* C15: df_lazy holds the rows of stop_times.txt; within a (route, stop) group
\* the departures are in ascending order of seconds (nulls first); the first
\* row of a group has no headway, any other row has its seconds minus those
\* of the row before it in its group (null when either is null), and every
\* headway is >= 0.
C15_HeadwayWithinGroup ==
    pc = "collected" =>
        /\ Len(df_lazy) = Len(stop_times)
        /\ \A r \in Rows(stop_times) :
              Cardinality({i \in 1..Len(stop_times) : stop_times[i] = r})
                  = Cardinality({i \in 1..Len(df_lazy) :
                        /\ df_lazy[i].trip_id = r.trip_id
                        /\ df_lazy[i].stop_id = r.stop_id
                        /\ df_lazy[i].departure_time = r.departure_time})
        /\ \A i \in 1..Len(df_lazy) :
              /\ df_lazy[i].departure_time_seconds = SecondsOf(df_lazy[i].departure_time)
              /\ (df_lazy[i].route_id_extracted = "3001")
                    = (df_lazy[i].trip_id = <<"weekday", "minamitoyama", "3001">>)
              /\ IF GroupBefore(i) = {} THEN df_lazy[i].headway_s = <<>>
                 ELSE LET j == CHOOSE x \in GroupBefore(i) :
                                   \A y \in GroupBefore(i) : y <= x
                          a == df_lazy[i].departure_time_seconds
                          b == df_lazy[j].departure_time_seconds
                      IN  /\ b # <<>> => (a # <<>> /\ b[1] <= a[1])
                          /\ df_lazy[i].headway_s =
                                IF a = <<>> \/ b = <<>> THEN <<>>
                                ELSE <<a[1] - b[1]>>
              /\ df_lazy[i].headway_s # <<>> => df_lazy[i].headway_s[1] >= 0

\* two groups with two departures each were given interleaved and out of order
C15_Witness ==
    /\ pc = "collected"
    /\ Len(stop_times) = 3
    /\ stop_times[1].departure_time = << <<24, 5, 0>> >>
    /\ stop_times[2].stop_id # stop_times[1].stop_id
    /\ stop_times[3].stop_id = stop_times[1].stop_id
    /\ route_extracted(stop_times[3].trip_id) = route_extracted(stop_times[1].trip_id)
    /\ stop_times[3].departure_time = << <<8, 10, 30>> >>
    /\ \E i \in 1..3 : df_lazy[i].headway_s = <<57270>>

----------------------------------------------------------------------------
(* tar2parquet: main                                                       *)
(*                                                                         *)
(* args holds the parsed command line and what the file system answers:    *)
(* tar_path is "none" (not given), "missing" (given, no such file) or      *)
(* "exists"; tar_dir is "none", "not_dir" or "dir"; output_dir says        *)
(* whether --output-dir was given; workers is <<>> for None; call_raises    *)
(* says whether the processing function main calls raises (a file that is  *)
(* no tar archive, an exception in phase 3, a mkdir that fails).            *)

MainArgs ==
    [test : BOOLEAN, test_success : BOOLEAN, show_agencies : BOOLEAN,
     tar_path : {"none", "missing", "exists"},
     tar_dir : {"none", "not_dir", "dir"},
     output_dir : BOOLEAN, use_python : BOOLEAN, HAS_DUCKDB : BOOLEAN,
     workers : {<<>>, <<4>>}, call_raises : BOOLEAN]

\* main returns code after the calls; or an exception leaves main, and there
\* is no return code
Returns(code, calls) == [code |-> <<code>>, calls |-> calls, raised |-> FALSE]

Raises(calls) == [code |-> <<>>, calls |-> calls, raised |-> TRUE]

\* the processing call, not in any try, then return 0
call_then_return_0(a, c) ==
    IF a.call_raises THEN Raises(<<c>>) ELSE Returns(0, <<c>>)

\* the call of process_tar_with_duckdb or process_tar_to_normalized_parquet
\* on the single tar file
process_tar_path(a, show, n_workers) ==
    [function |-> IF a.HAS_DUCKDB /\ ~a.use_python
                  THEN "process_tar_with_duckdb"
                  ELSE "process_tar_to_normalized_parquet",
     target |-> "tar_path", show_agencies |-> show, workers |-> n_workers]

\* the directory branch of main
main_tar_dir(a) ==
    IF ~a.output_dir THEN Returns(1, <<>>)
    ELSE IF a.tar_dir # "dir" THEN Returns(1, <<>>)
    ELSE call_then_return_0(a,
             [function |-> "process_tar_directory", target |-> "tar_dir",
              show_agencies |-> FALSE, workers |-> a.workers])

\* the single tar file branch of main
main_tar_path(a) ==
    IF ~a.output_dir THEN Returns(1, <<>>)
    ELSE IF a.tar_path # "exists" THEN Returns(1, <<>>)
    ELSE call_then_return_0(a, process_tar_path(a, FALSE, a.workers))

\* the show-agencies branch of main
main_show_agencies(a) ==
    IF a.tar_path = "none" THEN Returns(1, <<>>)
    ELSE IF a.tar_path # "exists" THEN Returns(1, <<>>)
    ELSE call_then_return_0(a,
             process_tar_path(a, TRUE,
                 IF a.HAS_DUCKDB /\ ~a.use_python THEN a.workers ELSE <<1>>))

\* a slip: the directory is looked at before the single tar file
main_dir_first(a) ==
    IF a.test THEN Returns(IF a.test_success THEN 0 ELSE 1, <<>>)
    ELSE IF a.show_agencies THEN main_show_agencies(a)
    ELSE IF a.tar_dir # "none" THEN main_tar_dir(a)
    ELSE IF a.tar_path # "none" THEN main_tar_path(a)
    ELSE Returns(1, <<>>)

\* main, after parse_args
main(a) ==
    IF a.test THEN Returns(IF a.test_success THEN 0 ELSE 1, <<>>)
    ELSE IF a.show_agencies THEN main_show_agencies(a)
    ELSE IF a.tar_path # "none" THEN main_tar_path(a)
    ELSE IF a.tar_dir # "none" THEN main_tar_dir(a)
    ELSE Returns(1, <<>>)

InitMain ==
    /\ pc = "parse_args"
    /\ JoinIdle /\ TripIdle /\ NearIdle /\ TarIdle
    /\ SaveIdle /\ WorkersIdle /\ CanonIdle /\ HeadwayIdle /\ DirIdle /\ TimetableIdle
    /\ args \in MainArgs
    /\ returned = <<>>
    /\ processed = <<>>

Main ==
    /\ pc = "parse_args"
    /\ returned' = main(args).code
    /\ processed' = main(args).calls
    /\ pc' = IF main(args).raised THEN "main_raised" ELSE "main_returned"
    /\ UNCHANGED <<joinVars, tripVars, nearVars, tarVars, saveVars, workersVars,
                   canonVars, headwayVars, dirVars, ttVars, args>>

NextMain == Main

SpecMain == InitMain /\ [][NextMain]_vars

\* the cases the claim lists
ClaimedErrorCase ==
    \/ args.show_agencies /\ args.tar_path = "none"
    \/ (args.tar_path # "none" \/ args.tar_dir # "none") /\ ~args.output_dir
    \/ args.tar_path = "missing"
    \/ args.tar_dir = "not_dir"
    \/ args.tar_path = "none" /\ args.tar_dir = "none"

MainDone == pc \in {"main_returned", "main_raised"}

\* C16 as claimed: in each listed case main returns 1 and processes nothing.
C16_Claimed_ErrorCases ==
    (MainDone /\ ~args.test /\ ClaimedErrorCase) =>
        (returned = <<1>> /\ processed = <<>>)

\* the cases in which main returns 1, by mode
ErrorCase ==
    IF args.show_agencies THEN args.tar_path # "exists"
    ELSE IF args.tar_path # "none"
    THEN ~args.output_dir \/ args.tar_path = "missing"
    ELSE IF args.tar_dir # "none"
    THEN ~args.output_dir \/ args.tar_dir = "not_dir"
    ELSE TRUE

\* C16: without --test, main returns 1 and makes no processing call exactly
\* in the error cases of the mode it is in (show-agencies, then single tar
\* file, then directory); otherwise it makes exactly one call: on the tar file
\* whenever --tar-path is given, on the directory only when it is not; it
\* returns 0 when that call returns, and when the call raises the exception
\* leaves main and there is no return code.
C16_ReturnCodes ==
    (MainDone /\ ~args.test) =>
        IF ErrorCase
        THEN pc = "main_returned" /\ returned = <<1>> /\ processed = <<>>
        ELSE /\ Len(processed) = 1
             /\ processed[1].target =
                   IF args.tar_path # "none" THEN "tar_path" ELSE "tar_dir"
             /\ processed[1].show_agencies = args.show_agencies
             /\ (processed[1].function = "process_tar_directory")
                   = (args.tar_path = "none")
             /\ IF args.call_raises
                THEN pc = "main_raised" /\ returned = <<>>
                ELSE pc = "main_returned" /\ returned = <<0>>

\* both --tar-path and --tar-dir were given with --output-dir: main returned 0
\* after processing the single tar file only
C16_Witness ==
    /\ pc = "main_returned"
    /\ ~args.test /\ ~args.show_agencies
    /\ args.tar_path = "exists" /\ args.tar_dir = "dir" /\ args.output_dir
    /\ ~args.call_raises
    /\ returned = <<0>>
    /\ Len(processed) = 1
    /\ processed[1].target = "tar_path"

----------------------------------------------------------------------------
(* tar2parquet: the number of workers of process_tar_to_normalized_parquet *)
(*                                                                         *)
(* The workers argument and os.cpu_count() are <<>> for None; json_tasks   *)
(* and total_size_bytes are what phase 1 left.                             *)

InitWorkers ==
    /\ pc = "phase1_done"
    /\ JoinIdle /\ TripIdle /\ NearIdle
    /\ SaveIdle /\ CanonIdle /\ HeadwayIdle /\ MainIdle /\ DirIdle /\ TimetableIdle
    /\ \E w \in WorkersArgs, cpu \in CpuCounts :
          call = [function |-> "process_tar_to_normalized_parquet",
                  has_duckdb |-> TRUE, workers |-> w, cpu_count |-> cpu,
                  agency_filter |-> <<>>, show_agencies |-> FALSE]
    /\ members = <<>>
    /\ \E n \in TaskCounts :
          json_tasks = [i \in 1..n |->
                           [filename |-> i, content |-> "chitetsu_tram",
                            dates |-> <<20251101>>, feed_type |-> "trip_updates"]]
    /\ total_size_bytes \in ContentSizes
    /\ workers = <<>>
    /\ parse_log = <<>>
    /\ cursor = 0
    /\ futures = <<>>
    /\ acc = NewAcc

\* lines 392-404: the number of workers is settled
AutoDetectWorkers ==
    /\ pc = "phase1_done"
    /\ workers' = <<resolve_workers(call.workers, Len(json_tasks),
                                    total_size_bytes, call.cpu_count)>>
    /\ pc' = "phase2"
    /\ UNCHANGED <<joinVars, tripVars, nearVars, tarVars, saveVars,
                   total_size_bytes, parse_log, canonVars, headwayVars, mainVars,
                   dirVars, ttVars>>

\* line 417: the branch of phase 2 is taken
ChooseParsingMode ==
    /\ pc = "phase2"
    /\ pc' = parsing_mode(workers[1])
    /\ UNCHANGED <<joinVars, tripVars, nearVars, tarVars, saveVars,
                   workersVars, canonVars, headwayVars, mainVars, dirVars, ttVars>>

NextWorkers ==
    \/ AutoDetectWorkers
    \/ ChooseParsingMode
    \/ ParseSequential

SpecWorkers == InitWorkers /\ [][NextWorkers]_vars

SmallData == Len(json_tasks) < 1000 /\ total_size_bytes < 50 * 1024 * 1024

ExpectedWorkers ==
    IF call.workers # <<>> THEN call.workers[1]
    ELSE IF SmallData THEN 1
    ELSE IF call.cpu_count = <<>> THEN 4
    ELSE call.cpu_count[1]

\* the file names of the first n tasks, in the order phase 1 read them
TasksInOrder(n) == [k \in 1..n |-> json_tasks[k].filename]

\* C17: a given workers is used as it is; workers = None becomes 1 when there
\* are fewer than 1000 tasks and fewer than 50 MiB of content, and the CPU
\* count otherwise (4 when os.cpu_count() gives none); the process pool is
\* entered exactly when the resulting number is greater than 1, and then the
\* calling process parses no task; otherwise no task is submitted to a pool
\* and the calling process parses the tasks one after the other in the order
\* phase 1 read them, each once.
C17_WorkersChooseMode ==
    /\ pc \in {"phase2", "parse_parallel", "parse_sequential"} =>
          workers = <<ExpectedWorkers>>
    /\ pc = "parse_parallel" => ExpectedWorkers > 1 /\ parse_log = <<>>
    /\ pc = "parse_sequential" =>
          /\ ExpectedWorkers <= 1
          /\ futures = <<>>
          /\ cursor <= Len(json_tasks)
          /\ parse_log = TasksInOrder(cursor)
          /\ acc.processed_count + acc.skipped_count = cursor

\* workers was None with 999 tasks of less than 50 MiB: one worker was taken
\* and the calling process has parsed all 999 tasks in order
C17_Witness ==
    /\ pc = "parse_sequential"
    /\ call.workers = <<>>
    /\ call.cpu_count = <<8>>
    /\ Len(json_tasks) = 999
    /\ total_size_bytes = 52428799
    /\ workers = <<1>>
    /\ cursor = 999
    /\ parse_log[1] = 1 /\ parse_log[999] = 999

\* workers was None, the tasks are fewer than 1000 but hold 50 MiB: the CPU
\* count was taken and the pool entered
C17_PoolEntered ==
    /\ pc = "parse_parallel"
    /\ call.workers = <<>>
    /\ Len(json_tasks) = 999
    /\ total_size_bytes = 52428800
    /\ workers = <<8>>

----------------------------------------------------------------------------
(* tar2parquet: process_tar_directory                                      *)
(*                                                                         *)
(* A file matching the pattern is a tar the processing function handles    *)
(* ("tar"), a file it raises on ("corrupt") or a directory matching the    *)
(* pattern ("directory"), on which it raises as well.                      *)

TarFileKinds == {"tar", "corrupt", "directory"}

DirectoryCalls ==
    [function : {"process_tar_directory"}, use_python : BOOLEAN,
     HAS_DUCKDB : BOOLEAN]

\* the body of the try block for one tar file
attempt_tar_file(i, kind, c) ==
    [file |-> i,
     function |-> IF c.HAS_DUCKDB /\ ~c.use_python
                  THEN "process_tar_with_duckdb"
                  ELSE "process_tar_to_normalized_parquet",
     show_agencies |-> FALSE,
     outcome |-> IF kind = "tar" THEN "processed" ELSE "failed"]

\* a slip: the exception leaves the loop
after_attempt_raising(r) ==
    IF r.outcome = "failed" THEN "returned" ELSE "process_loop"

\* except Exception: print, traceback, continue
after_attempt(r) == "process_loop"

InitDirectory ==
    /\ pc = "glob"
    /\ JoinIdle /\ TripIdle /\ NearIdle
    /\ SaveIdle /\ WorkersIdle /\ CanonIdle /\ HeadwayIdle /\ MainIdle
    /\ TimetableIdle
    /\ call \in DirectoryCalls
    /\ members = <<>> /\ json_tasks = <<>> /\ cursor = 0
    /\ futures = <<>> /\ acc = <<>>
    /\ tar_files = <<>>
    /\ tar_index = 0
    /\ tar_results = <<>>

\* one more file matching the pattern
MatchingFile ==
    /\ pc = "glob"
    /\ Len(tar_files) < MaxTarFiles
    /\ \E k \in TarFileKinds : tar_files' = Append(tar_files, k)
    /\ UNCHANGED <<pc, joinVars, tripVars, nearVars, tarVars, saveVars,
                   workersVars, canonVars, headwayVars, mainVars, ttVars,
                   tar_index, tar_results>>

\* lines 561-574: the output directory is made and the files are listed
ListTarFiles ==
    /\ pc = "glob"
    /\ output_dir' = TRUE
    /\ pc' = IF tar_files = <<>> THEN "returned" ELSE "process_loop"
    /\ UNCHANGED <<joinVars, tripVars, nearVars, tarVars, saved,
                   workersVars, canonVars, headwayVars, mainVars, ttVars,
                   dirVars>>

\* one iteration of the loop over tar_files
ProcessTarFile ==
    /\ pc = "process_loop"
    /\ tar_index < Len(tar_files)
    /\ LET r == attempt_tar_file(tar_index + 1, tar_files[tar_index + 1], call)
       IN  /\ tar_results' = Append(tar_results, r)
           /\ pc' = after_attempt(r)
    /\ tar_index' = tar_index + 1
    /\ UNCHANGED <<joinVars, tripVars, nearVars, tarVars, saveVars,
                   workersVars, canonVars, headwayVars, mainVars, ttVars,
                   tar_files>>

\* the loop has run over every file
DirectoryDone ==
    /\ pc = "process_loop"
    /\ tar_index = Len(tar_files)
    /\ pc' = "returned"
    /\ UNCHANGED <<joinVars, tripVars, nearVars, tarVars, saveVars,
                   workersVars, canonVars, headwayVars, mainVars, ttVars,
                   dirVars>>

NextDirectory ==
    \/ MatchingFile
    \/ ListTarFiles
    \/ ProcessTarFile
    \/ DirectoryDone

SpecDirectory == InitDirectory /\ [][NextDirectory]_vars

\* C18: while the loop runs, the files attempted are the first tar_index
\* files, once each and in order; a file the processing raises on is recorded
\* as failed and the loop goes on; when the function has returned every
\* matching file was attempted exactly once, and nothing was attempted when
\* no file matched.
C18_EveryTarAttemptedOnce ==
    pc \in {"process_loop", "returned"} =>
        /\ Len(tar_results) = tar_index
        /\ \A i \in 1..Len(tar_results) :
              /\ tar_results[i].file = i
              /\ tar_results[i].show_agencies = FALSE
              /\ (tar_results[i].outcome = "failed") = (tar_files[i] # "tar")
        /\ pc = "returned" =>
              /\ Len(tar_results) = Len(tar_files)
              /\ \A f \in 1..Len(tar_files) :
                    Cardinality({i \in 1..Len(tar_results) :
                                    tar_results[i].file = f}) = 1
        /\ tar_files = <<>> => tar_results = <<>>

\* the first file failed and the two after it were still processed
C18_Witness ==
    /\ pc = "returned"
    /\ Len(tar_files) = 3
    /\ tar_files[1] = "corrupt"
    /\ tar_results[1].outcome = "failed"
    /\ tar_results[2].outcome = "processed"
    /\ tar_results[3].outcome = "processed"

----------------------------------------------------------------------------
(* extract_timetable                                                       *)
(*                                                                         *)
(* snapshot_ts is a datetime, held as seconds since the epoch;             *)
(* direction_id is a nullable integer.                                     *)

PivotKeys ==
    { <<4980, 1, <<1>>>>, <<4980, 2, <<1>>>>, <<4983, 1, <<0>>>>, <<4983, 1, <<>>>> }

TimetableStops == {"toyama_station", "shintomicho"}

SnapshotTimes == {1700000000, 1700003600}

DirectionVals == {0, 1}

\* dt.strftime('%H:%M:%S'): the digits hhmmss
strftime_hms(ts) ==
    LET secs == ts % 86400
    IN  (secs \div 3600) * 10000 + ((secs % 3600) \div 60) * 100 + (secs % 60)

PivotKey(r) == <<r.vehicle_id, r.trip_count, r.direction_id>>

\* df_time
df_time(df) ==
    [i \in 1..Len(df) |->
        [vehicle_id |-> df[i].vehicle_id, trip_count |-> df[i].trip_count,
         direction_id |-> df[i].direction_id, nearest_stop |-> df[i].nearest_stop,
         snapshot_ts |-> df[i].snapshot_ts,
         time_str |-> strftime_hms(df[i].snapshot_ts)]]

\* the rows of one index key at one stop
PivotCellRows(df, key, stop) ==
    {i \in 1..Len(df) : PivotKey(df[i]) = key /\ df[i].nearest_stop = stop}

\* a slip: aggregate_function='last'
pivot_last(df, key, stop) ==
    LET cell == PivotCellRows(df, key, stop)
    IN  IF cell = {} THEN <<>>
        ELSE <<df[CHOOSE i \in cell : \A j \in cell : j <= i].time_str>>

\* aggregate_function='first': null when the key has no row at the stop
pivot_first(df, key, stop) ==
    LET cell == PivotCellRows(df, key, stop)
    IN  IF cell = {} THEN <<>>
        ELSE <<df[CHOOSE i \in cell : \A j \in cell : i <= j].time_str>>

\* the index keys in the order of their first row
RECURSIVE pivot_index(_)
pivot_index(df) ==
    IF df = <<>> THEN <<>>
    ELSE LET front == pivot_index(SubSeq(df, 1, Len(df) - 1))
             key == PivotKey(df[Len(df)])
         IN  IF \E k \in 1..Len(front) : front[k] = key THEN front
             ELSE Append(front, key)

\* df_time.pivot(values='time_str', index=pivot_index, on='nearest_stop',
\*               aggregate_function='first')
pivot(df) ==
    LET keys == pivot_index(df)
        stops == {df[i].nearest_stop : i \in 1..Len(df)}
    IN  [k \in 1..Len(keys) |->
            [vehicle_id |-> keys[k][1], trip_count |-> keys[k][2],
             direction_id |-> keys[k][3],
             cells |-> [x \in stops |-> pivot_first(df, keys[k], x)]]]

\* extract_timetable
extract_timetable(df, val) ==
    LET IsDirection(r) == r.direction_id = <<val>>
    IN  SelectSeq(pivot(df_time(df)), IsDirection)

InitTimetable ==
    /\ pc = "df_final"
    /\ JoinIdle /\ TripIdle /\ NearIdle /\ TarIdle
    /\ SaveIdle /\ WorkersIdle /\ CanonIdle /\ HeadwayIdle /\ MainIdle /\ DirIdle
    /\ df_final = <<>>
    /\ direction_val \in DirectionVals
    /\ df_timetable = <<>>

\* one more row of the frame given
FinalRow ==
    /\ pc = "df_final"
    /\ Len(df_final) < MaxFinalRows
    /\ \E k \in PivotKeys, x \in TimetableStops, t \in SnapshotTimes :
          df_final' = Append(df_final,
              [vehicle_id |-> k[1], trip_count |-> k[2], direction_id |-> k[3],
               nearest_stop |-> x, snapshot_ts |-> t])
    /\ UNCHANGED <<pc, joinVars, tripVars, nearVars, tarVars, saveVars,
                   workersVars, canonVars, headwayVars, mainVars, dirVars,
                   direction_val, df_timetable>>

ExtractTimetable ==
    /\ pc = "df_final"
    /\ df_timetable' = extract_timetable(df_final, direction_val)
    /\ pc' = "timetable"
    /\ UNCHANGED <<joinVars, tripVars, nearVars, tarVars, saveVars,
                   workersVars, canonVars, headwayVars, mainVars, dirVars,
                   df_final, direction_val>>

NextTimetable ==
    \/ FinalRow
    \/ ExtractTimetable

SpecTimetable == InitTimetable /\ [][NextTimetable]_vars

\* HH:MM:SS of the times of the domain, as digits
ExpectedHMS(ts) == IF ts = 1700000000 THEN 221320 ELSE 231320

InputKeys == {PivotKey(df_final[i]) : i \in 1..Len(df_final)}

InputStops == {df_final[i].nearest_stop : i \in 1..Len(df_final)}

InputAt(key, stop) ==
    {i \in 1..Len(df_final) :
        PivotKey(df_final[i]) = key /\ df_final[i].nearest_stop = stop}

TimetableKey(row) == <<row.vehicle_id, row.trip_count, row.direction_id>>

\* C19: the frame returned has only rows of direction_val, exactly one for
\* every (vehicle_id, trip_count, direction_id) of that direction in the
\* input and none else, one column for every nearest_stop of the input, and
\* in each cell the HH:MM:SS of the first input row of that key and stop,
\* or null when there is no such row.
C19_TimetablePivot ==
    pc = "timetable" =>
        /\ \A k \in 1..Len(df_timetable) :
              /\ df_timetable[k].direction_id = <<direction_val>>
              /\ TimetableKey(df_timetable[k]) \in InputKeys
              /\ DOMAIN df_timetable[k].cells = InputStops
              /\ \A x \in InputStops :
                    LET at == InputAt(TimetableKey(df_timetable[k]), x)
                    IN  df_timetable[k].cells[x] =
                           IF at = {} THEN <<>>
                           ELSE <<ExpectedHMS(df_final[
                                     CHOOSE i \in at : \A j \in at : i <= j
                                  ].snapshot_ts)>>
        /\ \A key \in InputKeys :
              Cardinality({k \in 1..Len(df_timetable) :
                              TimetableKey(df_timetable[k]) = key})
                  = IF key[3] = <<direction_val>> THEN 1 ELSE 0

\* a trip of the direction asked for has two rows at one stop, the later time
\* first, and no row at the stop of a trip of another direction
C19_Witness ==
    /\ pc = "timetable"
    /\ Len(df_final) = 3
    /\ PivotKey(df_final[1]) = PivotKey(df_final[2])
    /\ df_final[1].nearest_stop = df_final[2].nearest_stop
    /\ df_final[1].snapshot_ts = 1700003600
    /\ df_final[2].snapshot_ts = 1700000000
    /\ df_final[3].direction_id # df_final[1].direction_id
    /\ df_final[3].nearest_stop # df_final[1].nearest_stop
    /\ Len(df_timetable) = 1
    /\ df_timetable[1].cells[df_final[1].nearest_stop] = <<231320>>
    /\ df_timetable[1].cells[df_final[3].nearest_stop] = <<>>

====
